---- MODULE Spec2Model ----
(***************************************************************************)
(* The room coordinator of human-to-human (GameServer, one instance per    *)
(* room).  The room is a single-threaded actor: every connect, close,      *)
(* message and promise continuation runs to completion before the next     *)
(* one starts, so each of them is one action.  A handler is written as an  *)
(* operator from the room's fields (a record s) to the fields after it,    *)
(* composed in the order of the statements of the source.                  *)
(***************************************************************************)
EXTENDS Integers, Sequences, FiniteSets, TLC

NULL == "null"

\* ------------------------------------------------------------------ bounds
\* Connection ids the transport may hand out.
Ids == {"u1", "u2", "u3"}
\* The connection ids of a room of two.
Pair == {"u1", "u2"}
\* Display names randomName() may draw (duplicates are possible).
Names == {"Swift Panda", "Cozy Fox"}
\* Date.now() at construction and the largest clock value explored.
StartTime == 50000
MaxTime == 60000
\* Amounts by which the clock is seen to advance between two events.
TickSteps == {9999, 10000}
\* Slider values and answer ids a client may submit.
SliderValues == {0, 5, 100}
AnswerIds == {"a1", "a2"}
\* Deck names a client may submit; only the first is known to the provider.
DeckNames == {"(not yet) friends", "nope"}
\* Chat texts a client may submit (already accepted by the validator).
ChatTexts == {"hi"}
\* The largest ordinal a question's counter is followed to (a participant that
\* reconnects may answer again, so the counter has no bound of its own).
MaxAnswerOrder == 2
\* The longest history kept for one participant of a chat, and the number of
\* sessions of one pair that are followed (a pair may close and reopen its chat
\* without end).
MaxChatLog == 14
MaxSessions == 2
\* The colour allocator's room: connections c1 .. cMaxRoom; while at most
\* FreeLeaves are connected anybody may leave.
MaxRoom == 20
\* The history of one participant of a chat up to which the three keep sending.
MaxThirdLog == 3
FreeLeaves == 9

\* ------------------------------------------------------- program constants
NUDGE_COOLDOWN_MS == 10000
CHAT_WINDOW_MS == 10000
CHAT_MAX_MESSAGES == 10
READY_QUORUM_PERCENT == 75
MIN_PLAYERS == 2

FLEXOKI_200 ==
  << "#F89A8A", "#F9AE77", "#ECCB60", "#BEC97E",
     "#87D3C3", "#92BFDB", "#C4B9E0", "#F4A4C2" >>

\* ------------------------------------------------------------ deck provider
\* getDeck: the static decks by name (a two-card deck stands for the content).
getDeck(name) ==
  IF name = "(not yet) friends"
    THEN << [card_name |-> "happiness", type |-> "buttons", answers |-> 4],
            [card_name |-> "focus_strengths_vs_weaknesses", type |-> "slider", answers |-> 2] >>
    ELSE << >>

\* Whether the provider has a deck of this name (getDeck is not undefined).
hasDeck(name) == name = "(not yet) friends"

\* cardToQuestion: a buttons card is a multiple-choice question; a slider card
\* with 2 answers has 6 positions, with 5 answers 5 positions.
cardToQuestion(card) ==
  IF card.type = "buttons"
    THEN [id |-> card.card_name, type |-> "MULTIPLE_CHOICE", positions |-> 0]
    ELSE [id |-> card.card_name, type |-> "SLIDER",
          positions |-> IF card.answers = 2 THEN 6 ELSE 5]

deckToQuestions(deck) == [i \in 1..Len(deck) |-> cardToQuestion(deck[i])]

\* Question ids a client may name: the deck's and one the deck does not have.
DeckQuestionIds == {"happiness", "focus_strengths_vs_weaknesses"}
QuestionIds == DeckQuestionIds \cup {"ghost"}

\* ------------------------------------------------------------------ helpers
Put(f, k, v) == [x \in (DOMAIN f) \cup {k} |-> IF x = k THEN v ELSE f[x]]
Del(f, k) == [x \in (DOMAIN f) \ {k} |-> f[x]]
Has(f, k) == k \in DOMAIN f
EmptyMap == [x \in {} |-> NULL]
\* Map.get(k) || d
GetOr(f, k, d) == IF k \in DOMAIN f THEN f[k] ELSE d

VARIABLES
  users, phase, currentQuestionIndex, revealRequests, lobbyConfig, questions,
  questionStartTimes, answerOrderCounters, narrativeStory,
  narrativeGenerationPromise, resultsReadyPlayers, introReadyPlayers,
  nudgeCooldowns, hostId, activeChats, chatMessageCounts,
  chatMessageTimestamps, connectionInsights,
  connectionInsightsGenerationPromise,
  connections, narrativeTask, narrativeWaiters, insightsTask,
  now, sent, chatLog, nudgeLog, compared

\* The fields of GameServer.
fields ==
  << users, phase, currentQuestionIndex, revealRequests, lobbyConfig, questions,
     questionStartTimes, answerOrderCounters, narrativeStory,
     narrativeGenerationPromise, resultsReadyPlayers, introReadyPlayers,
     nudgeCooldowns, hostId, activeChats, chatMessageCounts,
     chatMessageTimestamps, connectionInsights,
     connectionInsightsGenerationPromise >>

vars ==
  << fields, connections, narrativeTask, narrativeWaiters, insightsTask,
     now, sent, chatLog, nudgeLog, compared >>

\* The room as one record: the fields, the open connections of the transport,
\* the suspended asynchronous tasks (narrativeTask, the number of calls of
\* generateNarrative that have not returned; insightsTask, the pairs it
\* collected, empty when not suspended) with the late joiners waiting on the
\* narrative promise, the clock and the messages
\* sent so far by the running handler.  chatLog is history, not a field: for
\* every chat id and participant, the chat-send events the room has received
\* from the participant while the chat was open, each with the clock and
\* whether it was delivered, and a mark where a session of the chat was closed.
\* nudgeLog is history too: for every sender and target, the clock of the last
\* nudge of the sender that was accepted for the target.
Room ==
  [ users |-> users, phase |-> phase,
    currentQuestionIndex |-> currentQuestionIndex,
    revealRequests |-> revealRequests, lobbyConfig |-> lobbyConfig,
    questions |-> questions, questionStartTimes |-> questionStartTimes,
    answerOrderCounters |-> answerOrderCounters,
    narrativeStory |-> narrativeStory,
    narrativeGenerationPromise |-> narrativeGenerationPromise,
    resultsReadyPlayers |-> resultsReadyPlayers,
    introReadyPlayers |-> introReadyPlayers,
    nudgeCooldowns |-> nudgeCooldowns, hostId |-> hostId,
    activeChats |-> activeChats, chatMessageCounts |-> chatMessageCounts,
    chatMessageTimestamps |-> chatMessageTimestamps,
    connectionInsights |-> connectionInsights,
    connectionInsightsGenerationPromise |-> connectionInsightsGenerationPromise,
    connections |-> connections,
    narrativeTask |-> narrativeTask, narrativeWaiters |-> narrativeWaiters,
    insightsTask |-> insightsTask,
    now |-> now, chatLog |-> chatLog, nudgeLog |-> nudgeLog, out |-> << >> ]

\* The handler has returned: its result becomes the room's state.
Commit(s) ==
  /\ compared' = compared
  /\ users' = s.users
  /\ phase' = s.phase
  /\ currentQuestionIndex' = s.currentQuestionIndex
  /\ revealRequests' = s.revealRequests
  /\ lobbyConfig' = s.lobbyConfig
  /\ questions' = s.questions
  /\ questionStartTimes' = s.questionStartTimes
  /\ answerOrderCounters' = s.answerOrderCounters
  /\ narrativeStory' = s.narrativeStory
  /\ narrativeGenerationPromise' = s.narrativeGenerationPromise
  /\ resultsReadyPlayers' = s.resultsReadyPlayers
  /\ introReadyPlayers' = s.introReadyPlayers
  /\ nudgeCooldowns' = s.nudgeCooldowns
  /\ hostId' = s.hostId
  /\ activeChats' = s.activeChats
  /\ chatMessageCounts' = s.chatMessageCounts
  /\ chatMessageTimestamps' = s.chatMessageTimestamps
  /\ connectionInsights' = s.connectionInsights
  /\ connectionInsightsGenerationPromise' = s.connectionInsightsGenerationPromise
  /\ connections' = s.connections
  /\ insightsTask' = s.insightsTask
  /\ narrativeTask' = s.narrativeTask
  /\ narrativeWaiters' = s.narrativeWaiters
  /\ now' = s.now
  /\ chatLog' = s.chatLog
  /\ nudgeLog' = s.nudgeLog
  /\ sent' = s.out

\* this.room.getConnections(): the open connections.  A connection is open
\* before onConnect runs and no longer open when onClose or onError runs.
getConnections(s) == s.connections

\* connection.send / this.room.broadcast(msg, without)
send(s, to, msg) ==
  IF to \in getConnections(s)
    THEN [s EXCEPT !.out = Append(@, [to |-> {to}, msg |-> msg])]
    ELSE s
broadcast(s, msg, without) ==
  [s EXCEPT !.out = Append(@, [to |-> getConnections(s) \ without, msg |-> msg])]

\* ------------------------------------------------------- private methods
\* String order of the connection ids ([a, b].sort()).
idRank(id) == CASE id = "u1" -> 1 [] id = "u2" -> 2 [] id = "u3" -> 3 [] OTHER -> 4
sortPair(a, b) == IF idRank(a) <= idRank(b) THEN << a, b >> ELSE << b, a >>

getChatId(userId1, userId2) ==
  sortPair(userId1, userId2)[1] \o "-" \o sortPair(userId1, userId2)[2]

\* Chat ids a client may name.
ChatIds == { getChatId(a, b) : a \in Ids, b \in Ids }

\* A reveal that takes the request of one side for both.
isMutualReveal_oneWay(s, userA, userB) ==
  Has(s.revealRequests, userA) /\ userB \in s.revealRequests[userA]

isMutualReveal(s, userA, userB) ==
  /\ Has(s.revealRequests, userA) /\ userB \in s.revealRequests[userA]
  /\ Has(s.revealRequests, userB) /\ userA \in s.revealRequests[userB]

\* History: one more entry in the log of this chat id and participant.
logChat(s, chatId, userId, kind) ==
  [s EXCEPT !.chatLog = Put(@, << chatId, userId >>,
     Append(GetOr(s.chatLog, << chatId, userId >>, << >>),
            [at |-> s.now, kind |-> kind]))]

\* History: the session is over for this participant (marked once).
logClosed(s, chatId, userId) ==
  LET log == GetOr(s.chatLog, << chatId, userId >>, << >>) IN
  IF log = << >> \/ log[Len(log)].kind = "closed" THEN s
  ELSE logChat(s, chatId, userId, "closed")

\* History: a session of this chat id begins for its participants.
logStarted(s, chatId, userId1, userId2) ==
  IF userId1 = userId2 THEN logChat(s, chatId, userId1, "started")
  ELSE logChat(logChat(s, chatId, userId1, "started"), chatId, userId2, "started")

\* History: the sessions this participant has had under this chat id.
sessionsStarted(log) ==
  Cardinality({ i \in 1..Len(log) : log[i].kind = "started" })

createChatSession(s, chatId, userId1, userId2) ==
  [logStarted(s, chatId, userId1, userId2) EXCEPT
     !.activeChats = Put(@, chatId,
        [participants |-> sortPair(userId1, userId2), startedAt |-> s.now]),
     !.chatMessageCounts = Put(@, chatId, EmptyMap),
     !.chatMessageTimestamps = Put(@, chatId, EmptyMap)]

closeChatSession_keepsSession(s, chatId) ==
  [s EXCEPT
     !.chatMessageCounts = Del(@, chatId),
     !.chatMessageTimestamps = Del(@, chatId)]

closeChatSession_keepsCounters(s, chatId) ==
  [s EXCEPT
     !.activeChats = Del(@, chatId),
     !.chatMessageTimestamps = Del(@, chatId)]

closeChatSession(s, chatId) ==
  LET s1 == IF Has(s.activeChats, chatId)
              THEN logClosed(logClosed(s, chatId, s.activeChats[chatId].participants[1]),
                             chatId, s.activeChats[chatId].participants[2])
              ELSE s
  IN [s1 EXCEPT
        !.activeChats = Del(@, chatId),
        !.chatMessageCounts = Del(@, chatId),
        !.chatMessageTimestamps = Del(@, chatId)]

\* The question with this id (questions.find), or a record of type "none".
findQuestion(s, qId) ==
  IF \E i \in 1..Len(s.questions) : s.questions[i].id = qId
    THEN s.questions[CHOOSE i \in 1..Len(s.questions) : s.questions[i].id = qId]
    ELSE [id |-> qId, type |-> "none", positions |-> 0]

Abs(x) == IF x < 0 THEN -x ELSE x

contribution100_byPositions(s, qId, answerA, answerB) ==
  IF answerA.type = "choice" /\ answerB.type = "choice"
    THEN (IF answerA.answerId = answerB.answerId THEN 100 ELSE 0)
  ELSE IF answerA.type = "slider" /\ answerB.type = "slider"
    THEN LET question == findQuestion(s, qId) IN
         IF question.type = "SLIDER"
           THEN 100 - (100 * Abs(answerA.value - answerB.value)) \div question.positions
           ELSE 100 - Abs(answerA.value - answerB.value)
  ELSE 0

\* One jointly answered question's contribution to the score, in hundredths.
contribution100(s, qId, answerA, answerB) ==
  IF answerA.type = "choice" /\ answerB.type = "choice"
    THEN (IF answerA.answerId = answerB.answerId THEN 100 ELSE 0)
  ELSE IF answerA.type = "slider" /\ answerB.type = "slider"
    THEN LET question == findQuestion(s, qId) IN
         IF question.type = "SLIDER"
           THEN LET maxPosition == question.positions - 1 IN
                IF maxPosition > 0
                  THEN 100 - (100 * Abs(answerA.value - answerB.value)) \div maxPosition
                  ELSE (IF answerA.value = answerB.value THEN 100 ELSE 0)
           ELSE 100 - Abs(answerA.value - answerB.value)
  ELSE 0

RECURSIVE SumOver(_, _)
SumOver(S, f) ==
  IF S = {} THEN 0
  ELSE LET x == CHOOSE y \in S : TRUE IN f[x] + SumOver(S \ {x}, f)

\* calculateCompatibility: the score as the fraction num / den (den > 0),
\* num in hundredths of a question.
calculateCompatibility(s, userA, userB) ==
  LET joint == (DOMAIN userA.answers) \cap (DOMAIN userB.answers)
      c == [q \in joint |->
              contribution100(s, q, userA.answers[q].value, userB.answers[q].value)]
  IN IF joint = {} THEN [num |-> 0, den |-> 1]
     ELSE [num |-> SumOver(joint, c), den |-> 100 * Cardinality(joint)]

getConnectionInsight(s, userId, otherUserId) ==
  IF Has(s.connectionInsights, userId)
    THEN GetOr(s.connectionInsights[userId], otherUserId, NULL)
    ELSE NULL

\* sendResultsToConnection: the scores against every other connection.  The
\* rank of a match is its position in the descending sort of these scores.
sendResultsToConnection(s, conn) ==
  IF ~Has(s.users, conn) THEN s
  ELSE send(s, conn,
         [type |-> "RESULTS",
          matches |-> { [userId |-> o, anonymousName |-> s.users[o].name,
                         score |-> calculateCompatibility(s, s.users[conn], s.users[o]),
                         connectionReason |-> getConnectionInsight(s, conn, o)]
                        : o \in (getConnections(s) \cap DOMAIN s.users) \ {conn} }])

RECURSIVE sendResultsToAll(_, _)
\* for (const connection of getConnections()) sendResultsToConnection(connection)
sendResultsToAll(s, conns) ==
  IF conns = {} THEN s
  ELSE LET c == CHOOSE x \in conns : \A y \in conns : idRank(x) <= idRank(y)
       IN sendResultsToAll(sendResultsToConnection(s, c), conns \ {c})

transitionToReveal(s) ==
  IF s.phase # "RESULTS" THEN s
  ELSE broadcast([s EXCEPT !.phase = "REVEAL"],
                 [type |-> "PHASE_CHANGE", phase |-> "REVEAL"], {})

quorumReached_flipped(readyCount, totalPlayers) ==
  totalPlayers > 0 /\ readyCount * 100 <= READY_QUORUM_PERCENT * totalPlayers

\* readyPercentage >= 75, with readyPercentage = size / users.size * 100.
quorumReached(readyCount, totalPlayers) ==
  totalPlayers > 0 /\ readyCount * 100 >= READY_QUORUM_PERCENT * totalPlayers

broadcastReadyStatus(s) ==
  LET s1 == broadcast(s,
              [type |-> "READY_STATUS",
               readyCount |-> Cardinality(s.resultsReadyPlayers),
               totalPlayers |-> Cardinality(DOMAIN s.users),
               readyUserIds |-> s.resultsReadyPlayers], {})
  IN IF quorumReached(Cardinality(s.resultsReadyPlayers), Cardinality(DOMAIN s.users))
        /\ s.phase = "RESULTS"
       THEN transitionToReveal(s1)
       ELSE s1

\* A transition that records no start time.
transitionToAnswering_noStartTime(s) ==
  broadcast([s EXCEPT !.phase = "ANSWERING", !.currentQuestionIndex = 0,
                      !.introReadyPlayers = {}],
            [type |-> "PHASE_CHANGE", phase |-> "ANSWERING"], {})

\* transitionToAnswering statement by statement: the room after the phase
\* flag is set, after the index is reset, after the ready set is cleared,
\* after the start time and the counter of the first question are recorded,
\* and after the broadcast.
transitionToAnsweringSteps(s) ==
  LET s1 == [s EXCEPT !.phase = "ANSWERING"]
      s2 == [s1 EXCEPT !.currentQuestionIndex = 0]
      s3 == [s2 EXCEPT !.introReadyPlayers = {}]
      s4 == IF Len(s3.questions) > 0
              THEN [s3 EXCEPT
                      !.questionStartTimes = Put(@, s3.questions[1].id, s3.now),
                      !.answerOrderCounters = Put(@, s3.questions[1].id, 0)]
              ELSE s3
      s5 == broadcast(s4, [type |-> "PHASE_CHANGE", phase |-> "ANSWERING"], {})
  IN << s1, s2, s3, s4, s5 >>

transitionToAnswering(s) ==
  LET s1 == [s EXCEPT !.phase = "ANSWERING",
                      !.currentQuestionIndex = 0,
                      !.introReadyPlayers = {}]
      s2 == IF Len(s.questions) > 0
              THEN [s1 EXCEPT
                      !.questionStartTimes = Put(@, s.questions[1].id, s.now),
                      !.answerOrderCounters = Put(@, s.questions[1].id, 0)]
              ELSE s1
  IN broadcast(s2, [type |-> "PHASE_CHANGE", phase |-> "ANSWERING"], {})

broadcastIntroReadyStatus(s) ==
  LET s1 == broadcast(s,
              [type |-> "INTRO_READY_STATUS",
               readyCount |-> Cardinality(s.introReadyPlayers),
               totalPlayers |-> Cardinality(DOMAIN s.users),
               readyUserIds |-> s.introReadyPlayers], {})
  IN IF quorumReached(Cardinality(s.introReadyPlayers), Cardinality(DOMAIN s.users))
        /\ s.phase = "INTRO"
       THEN transitionToAnswering(s1)
       ELSE s1

\* A string is truthy unless it is null or empty.
truthy(str) == str # NULL /\ str # ""

\* A generation without its in-flight guard.
narrativeInFlight_never(s) == FALSE

\* The in-flight guard of generateAndSendNarrative.
narrativeInFlight(s) == s.narrativeGenerationPromise # NULL

\* generateAndSendNarrative up to its first await.  A body that returns before
\* awaiting runs its finally (promise = null) and only then is the promise it
\* returns stored in the field, where it stays, settled.
generateAndSendNarrative(s) ==
  IF narrativeInFlight(s) THEN s
  ELSE IF Cardinality(DOMAIN s.users) < MIN_PLAYERS \/ Len(s.questions) = 0
    THEN [broadcast([s EXCEPT !.narrativeStory = ""],
                    [type |-> "NARRATIVE", story |-> ""], {})
            EXCEPT !.narrativeGenerationPromise = "settled"]
    ELSE [s EXCEPT !.narrativeGenerationPromise = "pending",
                   !.narrativeTask = @ + 1]

\* Late joiners that are forgotten when the promise settles.
sendNarrativeToWaiters_none(s, waiters) == s

RECURSIVE sendNarrativeToWaiters(_, _)
\* The then-callbacks of late joiners, run when the promise settles.
sendNarrativeToWaiters(s, waiters) ==
  IF waiters = {} THEN s
  ELSE LET c == CHOOSE x \in waiters : \A y \in waiters : idRank(x) <= idRank(y)
           s1 == IF truthy(s.narrativeStory)
                   THEN send(s, c, [type |-> "NARRATIVE", story |-> s.narrativeStory])
                   ELSE s
       IN sendNarrativeToWaiters(s1, waiters \ {c})

\* A settlement that broadcasts the story and leaves the marker set.
narrativeSettled_keepsMarker(s, story) ==
  [broadcast([s EXCEPT !.narrativeStory = story],
             [type |-> "NARRATIVE", story |-> story], {})
     EXCEPT !.narrativeTask = @ - 1, !.narrativeWaiters = {}]

\* generateAndSendNarrative after the await: the generated story, or the
\* fallback story when the call threw; then the finally.
narrativeSettled(s, story) ==
  LET s1 == broadcast([s EXCEPT !.narrativeStory = story],
                      [type |-> "NARRATIVE", story |-> story], {})
      s2 == [s1 EXCEPT !.narrativeGenerationPromise = NULL,
                       !.narrativeTask = @ - 1]
  IN [sendNarrativeToWaiters(s2, s.narrativeWaiters) EXCEPT !.narrativeWaiters = {}]

\* The pairs of connected users generateConnectionInsights collects.
insightPairs(s) ==
  { pr \in (getConnections(s) \cap DOMAIN s.users) \X (getConnections(s) \cap DOMAIN s.users) :
      idRank(pr[1]) < idRank(pr[2]) }

\* generateConnectionInsights up to its first await.
generateConnectionInsights(s) ==
  IF s.connectionInsightsGenerationPromise # NULL THEN s
  ELSE IF Cardinality(DOMAIN s.users) < MIN_PLAYERS \/ Len(s.questions) = 0
            \/ insightPairs(s) = {}
    THEN [s EXCEPT !.connectionInsightsGenerationPromise = "settled"]
    ELSE [s EXCEPT !.connectionInsightsGenerationPromise = "pending",
                   !.insightsTask = insightPairs(s)]

\* generateConnectionInsights after the await: the reason of every collected
\* pair is stored in both directions and the results are sent again.
insightsSettled(s, reason) ==
  LET pairs == s.insightsTask
      touched == { pr[1] : pr \in pairs } \cup { pr[2] : pr \in pairs }
      others(u) == { pr[2] : pr \in { q \in pairs : q[1] = u } }
                     \cup { pr[1] : pr \in { q \in pairs : q[2] = u } }
      old(u) == GetOr(s.connectionInsights, u, EmptyMap)
      ins == [u \in (DOMAIN s.connectionInsights) \cup touched |->
                IF u \in touched
                  THEN [o \in (DOMAIN old(u)) \cup others(u) |->
                          IF o \in others(u) THEN reason ELSE old(u)[o]]
                  ELSE s.connectionInsights[u]]
      s1 == [s EXCEPT !.connectionInsights = ins]
      s2 == IF s1.phase \in {"RESULTS", "REVEAL"}
              THEN sendResultsToAll(s1, getConnections(s1))
              ELSE s1
  IN [s2 EXCEPT !.connectionInsightsGenerationPromise = NULL,
                !.insightsTask = {}]

transitionToResults(s) ==
  IF s.phase # "ANSWERING" THEN s
  ELSE LET s1 == [s EXCEPT !.phase = "RESULTS", !.resultsReadyPlayers = {}]
           s2 == broadcast(s1, [type |-> "PHASE_CHANGE", phase |-> "RESULTS"], {})
           s3 == sendResultsToAll(s2, getConnections(s2))
           s4 == broadcastReadyStatus(s3)
           s5 == generateAndSendNarrative(s4)
       IN generateConnectionInsights(s5)

checkAllAnsweredCurrentQuestion_some(s) ==
  /\ Cardinality(getConnections(s)) >= MIN_PLAYERS
  /\ s.currentQuestionIndex < Len(s.questions)
  /\ \E c \in getConnections(s) :
        /\ Has(s.users, c)
        /\ Has(s.users[c].answers, s.questions[s.currentQuestionIndex + 1].id)

checkAllAnsweredCurrentQuestion(s) ==
  /\ Cardinality(getConnections(s)) >= MIN_PLAYERS
  /\ s.currentQuestionIndex < Len(s.questions)
  /\ \A c \in getConnections(s) :
        /\ Has(s.users, c)
        /\ Has(s.users[c].answers, s.questions[s.currentQuestionIndex + 1].id)

\* An index that runs past the end of the list before the results.
advanceToNextQuestion_pastEnd(s) ==
  LET s1 == [s EXCEPT !.currentQuestionIndex = @ + 1] IN
  IF s1.currentQuestionIndex > Len(s1.questions)
    THEN transitionToResults(s1)
    ELSE broadcast(s1, [type |-> "QUESTION_ADVANCE",
                        questionIndex |-> s1.currentQuestionIndex], {})

advanceToNextQuestion(s) ==
  LET s1 == [s EXCEPT !.currentQuestionIndex = @ + 1] IN
  IF s1.currentQuestionIndex >= Len(s1.questions)
    THEN transitionToResults(s1)
    ELSE LET currentQuestion == s1.questions[s1.currentQuestionIndex + 1]
             s2 == [s1 EXCEPT
                      !.questionStartTimes = Put(@, currentQuestion.id, s.now),
                      !.answerOrderCounters = Put(@, currentQuestion.id, 0)]
         IN broadcast(s2, [type |-> "QUESTION_ADVANCE",
                           questionIndex |-> s2.currentQuestionIndex], {})

clearGameState(s) ==
  [s EXCEPT
     !.questionStartTimes = EmptyMap,
     !.answerOrderCounters = EmptyMap,
     !.narrativeStory = NULL,
     !.resultsReadyPlayers = {},
     !.introReadyPlayers = {},
     !.narrativeGenerationPromise = NULL,
     !.users = [u \in DOMAIN s.users |-> [s.users[u] EXCEPT !.answers = EmptyMap]],
     !.currentQuestionIndex = 0]

\* getUniqueColor: the first base colour no user holds; with the palette
\* exhausted, the base colour users.size % 8 rotated in hue by 30 degrees per
\* variant index, from floor(users.size / 8) upward, until no user holds it.
usedColors(s) == { s.users[u].color : u \in DOMAIN s.users }

\* Math.round(n / d) for n >= 0 and d > 0.
RoundDiv(n, d) == (2 * n + d) \div (2 * d)

\* parseInt(hex.substring(..), 16) of the three channels of a palette colour.
parseRGB(hex) ==
  CASE hex = "#F89A8A" -> << 248, 154, 138 >>
    [] hex = "#F9AE77" -> << 249, 174, 119 >>
    [] hex = "#ECCB60" -> << 236, 203, 96 >>
    [] hex = "#BEC97E" -> << 190, 201, 126 >>
    [] hex = "#87D3C3" -> << 135, 211, 195 >>
    [] hex = "#92BFDB" -> << 146, 191, 219 >>
    [] hex = "#C4B9E0" -> << 196, 185, 224 >>
    [] hex = "#F4A4C2" -> << 244, 164, 194 >>

Max3(a, b, c) == IF a >= b /\ a >= c THEN a ELSE IF b >= c THEN b ELSE c
Min3(a, b, c) == IF a <= b /\ a <= c THEN a ELSE IF b <= c THEN b ELSE c

\* hexToHSL, the hue in degrees: the switch on max, with d = max - min > 0.
hueOf(r, g, b, max, d) ==
  IF max = r
    THEN RoundDiv(60 * (g - b) + (IF g < b THEN 360 * d ELSE 0), d)
  ELSE IF max = g
    THEN RoundDiv(60 * (b - r) + 120 * d, d)
  ELSE RoundDiv(60 * (r - g) + 240 * d, d)

\* hexToHSL, the saturation in percent: l > 0.5 is max + min > 255.
saturationOf(sum, d) ==
  IF sum > 255 THEN RoundDiv(100 * d, 510 - sum) ELSE RoundDiv(100 * d, sum)

hslOfExtremes(r, g, b, max, min) ==
  IF max = min
    THEN << 0, 0, RoundDiv(100 * (max + min), 510) >>
    ELSE << hueOf(r, g, b, max, max - min),
            saturationOf(max + min, max - min),
            RoundDiv(100 * (max + min), 510) >>

rgbToHSL(rgb) ==
  hslOfExtremes(rgb[1], rgb[2], rgb[3],
                Max3(rgb[1], rgb[2], rgb[3]), Min3(rgb[1], rgb[2], rgb[3]))

\* hexToHSL: hue in degrees, saturation and lightness in percent, each rounded.
hexToHSL(hex) == rgbToHSL(parseRGB(hex))

HexDigit ==
  << "0", "1", "2", "3", "4", "5", "6", "7",
     "8", "9", "A", "B", "C", "D", "E", "F" >>

\* toHex, upper-cased: two hexadecimal digits of a channel 0..255.
toHex(x) == HexDigit[(x \div 16) + 1] \o HexDigit[(x % 16) + 1]

\* hue2rgb after its two wraps of t, with p and q in units of 1/10000 and t in
\* degrees (units of 1/360); the result is in units of 1/600000.
hue2rgbWrapped(p, q, t) ==
  IF t < 60 THEN 60 * p + (q - p) * t
  ELSE IF t < 180 THEN 60 * q
  ELSE IF t < 240 THEN 60 * p + (q - p) * (240 - t)
  ELSE 60 * p

\* if (t > 1) t -= 1
wrapAbove(t) == IF t > 360 THEN t - 360 ELSE t

\* if (t < 0) t += 1
wrapBelow(t) == IF t < 0 THEN t + 360 ELSE t

hue2rgb(p, q, t) == hue2rgbWrapped(p, q, wrapAbove(wrapBelow(t)))

\* toHex(x) of a channel: Math.round(x * 255) in two digits.
channelHex(x) == toHex(RoundDiv(255 * x, 600000))

hexOfPQ(h, p, q) ==
  "#" \o channelHex(hue2rgb(p, q, h + 120))
      \o channelHex(hue2rgb(p, q, h))
      \o channelHex(hue2rgb(p, q, h - 120))

\* q = l < 0.5 ? l * (1 + s) : l + s - l * s, in units of 1/10000.
qOf(s, l) == IF l < 50 THEN l * (100 + s) ELSE 100 * l + 100 * s - l * s

greyHex(c) == "#" \o c \o c \o c

\* hslToHex: the colour of hue h (degrees), saturation s and lightness l
\* (percent) as "#RRGGBB"; p = 2 * l - q.
hslToHex(h, s, l) ==
  IF s = 0
    THEN greyHex(toHex(RoundDiv(255 * l, 100)))
    ELSE hexOfPQ(h, 200 * l - qOf(s, l), qOf(s, l))

\* The hue rotation of one variant step, in degrees.
HUE_ROTATION == 30

\* The colour of an [h, s, l] triple with its hue rotated by a variant index.
rotated(hsl, variantIndex) ==
  hslToHex((hsl[1] + variantIndex * HUE_ROTATION) % 360, hsl[2], hsl[3])

\* The variant of a base colour at a variant index.
variantColor(baseColor, variantIndex) == rotated(hexToHSL(baseColor), variantIndex)

\* The number of variant indexes after which the rotated hue repeats.
HuePeriod == 360 \div HUE_ROTATION

\* The do/while of getUniqueColor from a variant index on: the first variant
\* no user holds; NULL when the loop never ends, which is when all the
\* HuePeriod variants the loop can compute are held.
rotateUntilUnused_once(used, baseColor, variantIndex, tried) ==
  variantColor(baseColor, variantIndex)

RECURSIVE rotateUntilUnused(_, _, _, _)
rotateUntilUnused(used, baseColor, variantIndex, tried) ==
  IF tried = HuePeriod THEN NULL
  ELSE IF variantColor(baseColor, variantIndex) \in used
    THEN rotateUntilUnused(used, baseColor, variantIndex + 1, tried + 1)
    ELSE variantColor(baseColor, variantIndex)

getUniqueColor(s) ==
  IF \E i \in 1..Len(FLEXOKI_200) : FLEXOKI_200[i] \notin usedColors(s)
    THEN FLEXOKI_200[CHOOSE i \in 1..Len(FLEXOKI_200) :
                        /\ FLEXOKI_200[i] \notin usedColors(s)
                        /\ \A j \in 1..(i - 1) : FLEXOKI_200[j] \in usedColors(s)]
    ELSE LET userCount == Cardinality(DOMAIN s.users) IN
         rotateUntilUnused(usedColors(s),
                           FLEXOKI_200[(userCount % Len(FLEXOKI_200)) + 1],
                           userCount \div Len(FLEXOKI_200), 0)

\* ------------------------------------------------------------ the handlers
syncMessage(s, self) ==
  [type |-> "sync", self |-> self,
   users |-> { [id |-> c,
                name |-> IF Has(s.users, c) THEN s.users[c].name ELSE "Unknown",
                color |-> IF Has(s.users, c) THEN s.users[c].color ELSE "#999"]
               : c \in getConnections(s) },
   answeredBy |-> [q \in UNION { DOMAIN s.users[u].answers : u \in DOMAIN s.users } |->
                     { s.users[u].name : u \in { v \in DOMAIN s.users : Has(s.users[v].answers, q) } }],
   phase |-> s.phase, currentQuestionIndex |-> s.currentQuestionIndex,
   lobbyConfig |-> s.lobbyConfig, questions |-> s.questions, hostId |-> s.hostId]

\* onConnect, the connection already open.
onConnect(s0, id, name) ==
  LET s == [s0 EXCEPT !.connections = @ \cup {id}]
      color == getUniqueColor(s)
      s1 == [s EXCEPT !.users = Put(@, id, [name |-> name, color |-> color,
                                            answers |-> EmptyMap])]
      s2 == broadcast(s1, [type |-> "join", id |-> id, name |-> name,
                           color |-> color], {id})
      late == s2.phase \in {"RESULTS", "REVEAL"}
      s3 == IF late /\ truthy(s2.narrativeStory)
              THEN send(s2, id, [type |-> "NARRATIVE", story |-> s2.narrativeStory])
            ELSE IF late /\ s2.narrativeGenerationPromise = "pending"
              THEN [s2 EXCEPT !.narrativeWaiters = @ \cup {id}]
            ELSE s2
      s4 == send(s3, id, syncMessage(s3, id))
  IN IF late THEN sendResultsToConnection(s4, id) ELSE s4

recheckAfterLeave_never(s) == s

\* leave: "Recalculate if in ANSWERING phase".
recheckAfterLeave(s) ==
  IF s.phase = "ANSWERING" /\ checkAllAnsweredCurrentQuestion(s)
    THEN advanceToNextQuestion(s)
    ELSE s

RECURSIVE closeChatsOf(_, _, _)
\* leave: the loop over activeChats closing every chat of the leaving user.
closeChatsOf(s, userId, chatIds) ==
  IF chatIds = {} THEN s
  ELSE LET chatId == CHOOSE c \in chatIds : TRUE
           session == s.activeChats[chatId]
           partnerId == IF session.participants[1] = userId
                          THEN session.participants[2]
                          ELSE session.participants[1]
           s1 == send(s, partnerId, [type |-> "CHAT_CLOSED", chatId |-> chatId])
       IN closeChatsOf(closeChatSession(s1, chatId), userId, chatIds \ {chatId})

\* onClose / onError, the connection no longer open.
leave(s0, userId) ==
  LET s == [s0 EXCEPT !.connections = @ \ {userId}]
      mine == { c \in DOMAIN s.activeChats :
                  \/ s.activeChats[c].participants[1] = userId
                  \/ s.activeChats[c].participants[2] = userId }
      s1 == closeChatsOf(s, userId, mine)
      s2 == [s1 EXCEPT
               !.users = Del(@, userId),
               !.revealRequests =
                  [r \in (DOMAIN s1.revealRequests) \ {userId} |->
                     s1.revealRequests[r] \ {userId}],
               !.nudgeCooldowns = Del(@, userId),
               !.resultsReadyPlayers = @ \ {userId}]
      wasReady == userId \in s1.resultsReadyPlayers
      s3 == IF wasReady /\ s2.phase = "RESULTS" THEN broadcastReadyStatus(s2) ELSE s2
      s4 == broadcast(s3, [type |-> "leave", id |-> userId], {})
  IN recheckAfterLeave(s4)

alreadyAnswered_never(s, sender, questionId) == FALSE

\* First answer wins: the player already holds a record for the question.
alreadyAnswered(s, sender, questionId) == Has(s.users[sender].answers, questionId)

\* An announcement that carries the submitted value.
playerAnswered_withValue(player, questionId, value) ==
  [type |-> "PLAYER_ANSWERED", anonymousName |-> player.name,
   questionId |-> questionId, value |-> value]

\* The PLAYER_ANSWERED event of an accepted answer.
playerAnswered(player, questionId, value) ==
  [type |-> "PLAYER_ANSWERED", anonymousName |-> player.name,
   questionId |-> questionId]

\* "Increment answer order counter for this question".
nextAnswerOrder(s, sender, questionId) ==
  GetOr(s.answerOrderCounters, questionId, 0) + 1

\* The ANSWER and SLIDER_ANSWER branches of onMessage differ in the value only.
acceptAnswer(s, sender, questionId, value) ==
  IF s.phase # "ANSWERING" THEN s
  ELSE IF ~Has(s.users, sender) THEN s
  ELSE IF alreadyAnswered(s, sender, questionId) THEN s
  ELSE LET started == GetOr(s.questionStartTimes, questionId, 0)
           questionStartTime == IF started = 0 THEN s.now ELSE started
           answerOrder == nextAnswerOrder(s, sender, questionId)
           s1 == [s EXCEPT
                    !.answerOrderCounters = Put(@, questionId, answerOrder),
                    !.users[sender].answers = Put(@, questionId,
                       [value |-> value, timestamp |-> s.now,
                        timeToAnswer |-> s.now - questionStartTime,
                        answerOrder |-> answerOrder])]
           s2 == broadcast(s1, playerAnswered(s.users[sender], questionId, value), {})
       IN IF checkAllAnsweredCurrentQuestion(s2)
            THEN advanceToNextQuestion(s2)
            ELSE s2

onAnswer(s, sender, questionId, answerId) ==
  acceptAnswer(s, sender, questionId, [type |-> "choice", answerId |-> answerId])

onSliderAnswer(s, sender, questionId, value) ==
  acceptAnswer(s, sender, questionId, [type |-> "slider", value |-> value])

RECURSIVE sendSyncToAll(_, _)
sendSyncToAll(s, conns) ==
  IF conns = {} THEN s
  ELSE LET c == CHOOSE x \in conns : \A y \in conns : idRank(x) <= idRank(y)
       IN sendSyncToAll(send(s, c, [syncMessage(s, c) EXCEPT !.answeredBy = EmptyMap]),
                        conns \ {c})

handleConfigureLobby(s, deck) ==
  LET s1 == clearGameState(s) IN
  IF hasDeck(deck)
    THEN LET s2 == [s1 EXCEPT !.questions = deckToQuestions(getDeck(deck)),
                              !.lobbyConfig = deck]
         IN sendSyncToAll(s2, getConnections(s2))
    ELSE [s1 EXCEPT !.lobbyConfig = NULL, !.questions = << >>]

\* A lobby that can be configured again.
lobbyConfigured_never(s) == FALSE

\* The lobby is already configured (first one wins).
lobbyConfigured(s) == s.lobbyConfig # NULL

onConfigureLobby(s, sender, deck) ==
  IF s.phase # "LOBBY" THEN s
  ELSE IF lobbyConfigured(s) THEN s
  ELSE handleConfigureLobby([s EXCEPT !.hostId = sender], deck)

mayStartGame_anySender(s, sender) ==
  /\ Cardinality(getConnections(s)) >= MIN_PLAYERS
  /\ s.lobbyConfig # NULL

mayStartGame_anyCount(s, sender) ==
  /\ s.hostId # NULL /\ sender = s.hostId
  /\ s.lobbyConfig # NULL

\* The guards of START_GAME: the sender is the host, at least 2 connections,
\* the lobby is configured.
mayStartGame(s, sender) ==
  /\ s.hostId # NULL /\ sender = s.hostId
  /\ Cardinality(getConnections(s)) >= MIN_PLAYERS
  /\ s.lobbyConfig # NULL

onStartGame(s, sender) ==
  IF s.phase # "LOBBY" THEN s
  ELSE IF ~mayStartGame(s, sender) THEN s
  ELSE LET s1 == clearGameState(s)
           s2 == [s1 EXCEPT !.phase = "INTRO", !.introReadyPlayers = {}]
           s3 == broadcast(s2, [type |-> "PHASE_CHANGE", phase |-> "INTRO"], {})
       IN broadcastIntroReadyStatus(s3)

onTransitionToReveal_whenNarrated(s, sender) ==
  IF s.phase = "RESULTS" /\ truthy(s.narrativeStory) THEN transitionToReveal(s) ELSE s

onTransitionToReveal(s, sender) ==
  IF s.phase = "RESULTS" THEN transitionToReveal(s) ELSE s

onPlayerReady_anyPhase(s, sender) ==
  broadcastReadyStatus([s EXCEPT !.resultsReadyPlayers = @ \cup {sender}])

onPlayerReady(s, sender) ==
  IF s.phase = "RESULTS"
    THEN broadcastReadyStatus([s EXCEPT !.resultsReadyPlayers = @ \cup {sender}])
    ELSE s

onIntroReady(s, sender) ==
  IF s.phase = "INTRO"
    THEN broadcastIntroReadyStatus([s EXCEPT !.introReadyPlayers = @ \cup {sender}])
    ELSE s

nudgePartiesKnown_always(s, senderId, targetId) == TRUE

\* NUDGE: "Validate target exists".
nudgePartiesKnown(s, senderId, targetId) ==
  Has(s.users, targetId) /\ Has(s.users, senderId)

\* NUDGE: "Check per-player cooldown".
nudgeOnCooldown(timeSinceLastNudge) == timeSinceLastNudge < NUDGE_COOLDOWN_MS

onNudge(s, senderId, targetId) ==
  IF senderId = targetId
    THEN send(s, senderId, [type |-> "NUDGE_STATUS", targetId |-> targetId,
                            success |-> FALSE, cooldownRemaining |-> 0])
  ELSE IF ~nudgePartiesKnown(s, senderId, targetId)
    THEN send(s, senderId, [type |-> "NUDGE_STATUS", targetId |-> targetId,
                            success |-> FALSE, cooldownRemaining |-> 0])
  ELSE LET senderCooldowns == GetOr(s.nudgeCooldowns, senderId, EmptyMap)
           lastNudge == GetOr(senderCooldowns, targetId, 0)
           timeSinceLastNudge == s.now - lastNudge
       IN IF nudgeOnCooldown(timeSinceLastNudge)
            THEN send(s, senderId,
                   [type |-> "NUDGE_STATUS", targetId |-> targetId, success |-> FALSE,
                    cooldownRemaining |->
                      (NUDGE_COOLDOWN_MS - timeSinceLastNudge + 999) \div 1000])
            ELSE LET s1 == [s EXCEPT !.nudgeCooldowns =
                              Put(@, senderId, Put(senderCooldowns, targetId, s.now)),
                            !.nudgeLog = Put(@, << senderId, targetId >>, s.now)]
                     s2 == send(s1, targetId,
                             [type |-> "NUDGE_RECEIVED", senderId |-> senderId,
                              senderName |-> s.users[senderId].name,
                              senderColor |-> s.users[senderId].color])
                 IN send(s2, senderId,
                      [type |-> "NUDGE_STATUS", targetId |-> targetId,
                       success |-> TRUE, cooldownRemaining |-> 0])

chatAlreadyExists_never(s, chatId) == FALSE

\* The idempotency guard of the mutual branch: the pair's chat is open.
chatAlreadyExists(s, chatId) == Has(s.activeChats, chatId)

onRevealRequest(s, sender, targetId) ==
  IF s.phase # "REVEAL" THEN s
  ELSE IF ~Has(s.users, sender) \/ ~Has(s.users, targetId) THEN s
  ELSE LET requester == s.users[sender]
           target == s.users[targetId]
           s1 == [s EXCEPT !.revealRequests =
                    Put(@, sender, GetOr(s.revealRequests, sender, {}) \cup {targetId})]
           s2 == send(s1, targetId,
                   [type |-> "REVEAL_REQUEST_NOTIFICATION", requesterId |-> sender,
                    requesterName |-> requester.name,
                    requesterColor |-> requester.color])
           chatId == getChatId(sender, targetId)
       IN IF isMutualReveal(s2, sender, targetId)
            THEN IF chatAlreadyExists(s2, chatId) THEN s2
                 ELSE LET s3 == send(s2, sender,
                                  [type |-> "REVEAL_MUTUAL", userId |-> targetId,
                                   name |-> target.name, color |-> target.color])
                          s4 == send(s3, targetId,
                                  [type |-> "REVEAL_MUTUAL", userId |-> sender,
                                   name |-> requester.name, color |-> requester.color])
                          s5 == createChatSession(s4, chatId, sender, targetId)
                          s6 == send(s5, sender,
                                  [type |-> "CHAT_STARTED", chatId |-> chatId,
                                   partnerId |-> targetId, partnerName |-> target.name,
                                   partnerColor |-> target.color])
                      IN send(s6, targetId,
                           [type |-> "CHAT_STARTED", chatId |-> chatId,
                            partnerId |-> sender, partnerName |-> requester.name,
                            partnerColor |-> requester.color])
            ELSE send(s2, sender, [type |-> "REVEAL_STATUS", targetId |-> targetId,
                                   status |-> "pending"])

chatRateLimit_inclusiveWindow(userCount, lastTimestamp, nowMs) ==
  IF nowMs - lastTimestamp <= CHAT_WINDOW_MS
    THEN (IF userCount >= CHAT_MAX_MESSAGES THEN 0 ELSE userCount + 1)
    ELSE 1

\* The rate limiter of CHAT_MESSAGE: the counter the message leaves behind, or
\* 0 when the message is dropped.
chatRateLimit(userCount, lastTimestamp, nowMs) ==
  IF nowMs - lastTimestamp < CHAT_WINDOW_MS
    THEN (IF userCount >= CHAT_MAX_MESSAGES THEN 0 ELSE userCount + 1)
    ELSE 1

isParticipant_anyone(chatSession, sender) == TRUE

\* CHAT_MESSAGE: "Verify sender is a participant".
isParticipant(chatSession, sender) ==
  chatSession.participants[1] = sender \/ chatSession.participants[2] = sender

onChatMessage(s, sender, chatId, text) ==
  IF ~Has(s.activeChats, chatId) THEN s
  ELSE LET chatSession == s.activeChats[chatId] IN
  IF ~isParticipant(chatSession, sender) THEN s
  ELSE LET userCounts == GetOr(s.chatMessageCounts, chatId, EmptyMap)
           userTimestamps == GetOr(s.chatMessageTimestamps, chatId, EmptyMap)
           userCount == GetOr(userCounts, sender, 0)
           lastTimestamp == GetOr(userTimestamps, sender, 0)
           newCount == chatRateLimit(userCount, lastTimestamp, s.now)
       IN IF newCount = 0 THEN logChat(s, chatId, sender, "dropped")
          ELSE LET s0 == [s EXCEPT
                            !.chatMessageCounts =
                               Put(@, chatId, Put(userCounts, sender, newCount)),
                            !.chatMessageTimestamps =
                               Put(@, chatId, Put(userTimestamps, sender, s.now))]
                   partnerId == IF chatSession.participants[1] = sender
                                  THEN chatSession.participants[2]
                                  ELSE chatSession.participants[1]
                   s1 == logChat(s0, chatId, sender, "delivered")
               IN IF ~Has(s0.users, sender) \/ partnerId \notin getConnections(s0)
                    THEN logChat(s0, chatId, sender, "dropped")
                  ELSE send(s1, partnerId,
                         [type |-> "CHAT_MESSAGE", chatId |-> chatId, fromId |-> sender,
                          fromName |-> s1.users[sender].name, text |-> text,
                          timestamp |-> s.now])

onChatCloseRequest(s, sender, chatId) ==
  IF ~Has(s.activeChats, chatId) THEN s
  ELSE LET chatSession == s.activeChats[chatId] IN
  IF chatSession.participants[1] # sender /\ chatSession.participants[2] # sender THEN s
  ELSE LET s1 == send(s, chatSession.participants[1],
                   [type |-> "CHAT_CLOSED", chatId |-> chatId])
           s2 == send(s1, chatSession.participants[2],
                   [type |-> "CHAT_CLOSED", chatId |-> chatId])
       IN closeChatSession(s2, chatId)

\* --------------------------------------------------------------- the events
\* The room after construction.
InitRoom ==
  /\ users = EmptyMap
  /\ phase = "LOBBY"
  /\ currentQuestionIndex = 0
  /\ revealRequests = EmptyMap
  /\ lobbyConfig = NULL
  /\ questions = << >>
  /\ questionStartTimes = EmptyMap
  /\ answerOrderCounters = EmptyMap
  /\ narrativeStory = NULL
  /\ narrativeGenerationPromise = NULL
  /\ resultsReadyPlayers = {}
  /\ introReadyPlayers = {}
  /\ nudgeCooldowns = EmptyMap
  /\ hostId = NULL
  /\ activeChats = EmptyMap
  /\ chatMessageCounts = EmptyMap
  /\ chatMessageTimestamps = EmptyMap
  /\ connectionInsights = EmptyMap
  /\ connectionInsightsGenerationPromise = NULL
  /\ connections = {}
  /\ narrativeTask = 0
  /\ narrativeWaiters = {}
  /\ insightsTask = {}
  /\ now = StartTime
  /\ chatLog = EmptyMap
  /\ nudgeLog = EmptyMap
  /\ sent = << >>

\* No two participants' scores are being compared.
Init == InitRoom /\ compared = NULL

\* A connect whose colour allocation never ends has no state after it.
Connect(id, name) ==
  /\ id \notin connections
  /\ getUniqueColor([Room EXCEPT !.connections = @ \cup {id}]) # NULL
  /\ Commit(onConnect(Room, id, name))

Close(id) ==
  /\ id \in connections
  /\ Commit(leave(Room, id))

Answer(p, q, a) ==
  /\ p \in connections
  /\ GetOr(answerOrderCounters, q, 0) < MaxAnswerOrder
  /\ Commit(onAnswer(Room, p, q, a))

SliderAnswer(p, q, v) ==
  /\ p \in connections
  /\ GetOr(answerOrderCounters, q, 0) < MaxAnswerOrder
  /\ Commit(onSliderAnswer(Room, p, q, v))

ConfigureLobby(p, deck) ==
  /\ p \in connections
  /\ Commit(onConfigureLobby(Room, p, deck))

StartGame(p) ==
  /\ p \in connections
  /\ Commit(onStartGame(Room, p))

TransitionToRevealCmd(p) ==
  /\ p \in connections
  /\ Commit(onTransitionToReveal(Room, p))

PlayerReady(p) ==
  /\ p \in connections
  /\ Commit(onPlayerReady(Room, p))

IntroReady(p) ==
  /\ p \in connections
  /\ Commit(onIntroReady(Room, p))

Nudge(p, target) ==
  /\ p \in connections
  /\ Commit(onNudge(Room, p, target))

RevealRequest(p, target) ==
  /\ p \in connections
  /\ \/ Has(activeChats, getChatId(p, target))
     \/ sessionsStarted(GetOr(chatLog, << getChatId(p, target), p >>, << >>)) < MaxSessions
  /\ Commit(onRevealRequest(Room, p, target))

ChatMessage(p, chatId, text) ==
  /\ p \in connections
  /\ Len(GetOr(chatLog, << chatId, p >>, << >>)) < MaxChatLog
  /\ Commit(onChatMessage(Room, p, chatId, text))

ChatCloseRequest(p, chatId) ==
  /\ p \in connections
  /\ Commit(onChatCloseRequest(Room, p, chatId))

\* generateNarrative returned a story / threw (the fallback story is used).
NarrativeDone(story) ==
  /\ narrativeTask > 0
  /\ Commit(narrativeSettled(Room, story))

\* generateConnectionInsights returned / threw (the fallback reason is used).
InsightsDone(reason) ==
  /\ insightsTask # {}
  /\ Commit(insightsSettled(Room, reason))

\* Date.now() is larger at the next event.
Tick(d) ==
  /\ now + d <= MaxTime
  /\ now' = now + d
  /\ sent' = << >>
  /\ UNCHANGED << fields, connections, narrativeTask, narrativeWaiters,
                  insightsTask, chatLog, nudgeLog, compared >>

Next ==
  \/ \E id \in Ids, name \in Names : Connect(id, name)
  \/ \E id \in Ids : Close(id)
  \/ \E p \in Ids, q \in QuestionIds, a \in AnswerIds : Answer(p, q, a)
  \/ \E p \in Ids, q \in QuestionIds, v \in SliderValues : SliderAnswer(p, q, v)
  \/ \E p \in Ids, deck \in DeckNames : ConfigureLobby(p, deck)
  \/ \E p \in Ids : StartGame(p)
  \/ \E p \in Ids : TransitionToRevealCmd(p)
  \/ \E p \in Ids : PlayerReady(p)
  \/ \E p \in Ids : IntroReady(p)
  \/ \E p \in Ids, target \in Ids : Nudge(p, target)
  \/ \E p \in Ids, target \in Ids : RevealRequest(p, target)
  \/ \E p \in Ids, c \in ChatIds, text \in ChatTexts : ChatMessage(p, c, text)
  \/ \E p \in Ids, c \in ChatIds : ChatCloseRequest(p, c)
  \/ \E story \in {"story", "fallback"} : NarrativeDone(story)
  \/ \E reason \in {"insight", "fallback"} : InsightsDone(reason)
  \/ \E d \in TickSteps : Tick(d)

Spec == Init /\ [][Next]_vars

\* ---------------------------------------------------------------- the lobby
\* The lobby and the intro: connections come and go, the lobby is configured,
\* the game is started and players signal that they are ready.
LobbyNext ==
  \/ \E id \in Ids : Connect(id, "Swift Panda")
  \/ \E id \in Ids : Close(id)
  \/ \E p \in Ids, deck \in DeckNames : ConfigureLobby(p, deck)
  \/ \E p \in Ids : StartGame(p)
  \/ \E p \in Ids : IntroReady(p)

SpecLobby == Init /\ [][LobbyNext]_vars

\* C8: a START_GAME from a connection that is not hostId changes nothing and
\* sends nothing, whatever the number of participants and the configuration,
\* and the phase leaves LOBBY only in the step of a START_GAME sent by hostId.
C8_OnlyHostStarts ==
  /\ [](\A p \in connections : p # hostId => onStartGame(Room, p) = Room)
  /\ [][ (phase = "LOBBY" /\ phase' # "LOBBY") =>
            (hostId \in connections /\ StartGame(hostId)) ]_vars

\* A configured lobby of at least two, the host and a non-host among them.
C8_Witness ==
  /\ phase = "LOBBY" /\ lobbyConfig # NULL
  /\ hostId \in connections /\ Cardinality(connections) >= 2
  /\ \E p \in connections : p # hostId /\ onStartGame(Room, p) = Room

\* C9: a START_GAME received in LOBBY with fewer than 2 connections, or with
\* no lobby configuration, changes nothing and sends nothing, even when the
\* host sent it.
C9_StartNeedsTwoAndConfig ==
  \A p \in connections :
     (phase = "LOBBY" /\ (Cardinality(connections) < 2 \/ lobbyConfig = NULL))
        => onStartGame(Room, p) = Room

\* The host is alone in a configured lobby, and the host is with others in a
\* lobby whose configuration was refused.
C9_Witness ==
  /\ phase = "LOBBY" /\ hostId \in connections
  /\ \/ (lobbyConfig # NULL /\ Cardinality(connections) = 1)
     \/ (lobbyConfig = NULL /\ Cardinality(connections) >= 2)
  /\ onStartGame(Room, hostId) = Room

\* C10: an INTRO_READY moves the phase from INTRO to ANSWERING only if, with
\* it, the connected participants that have signalled intro-ready are at least
\* 75% of the connected participants.
C10_IntroQuorumOfConnected ==
  \A p \in connections :
     (phase = "INTRO" /\ onIntroReady(Room, p).phase = "ANSWERING") =>
        100 * Cardinality((introReadyPlayers \cup {p}) \cap connections)
           >= 75 * Cardinality(connections)

\* ------------------------------------------------------------- the answers
\* A game of two up to its results: the lobby, the intro and the answers, of
\* either shape, to any question of the deck, current or not, from connections
\* that come and go.
AnswerNext ==
  \/ \E id \in Pair : Connect(id, "Swift Panda")
  \/ \E id \in Pair : Close(id)
  \/ \E p \in Pair : ConfigureLobby(p, "(not yet) friends")
  \/ \E p \in Pair : StartGame(p)
  \/ \E p \in Pair : IntroReady(p)
  \/ \E p \in Pair, q \in DeckQuestionIds : Answer(p, q, "a1")
  \/ \E p \in Pair, q \in DeckQuestionIds : SliderAnswer(p, q, 5)

SpecAnswer == Init /\ [][AnswerNext]_vars

\* C1: once a participant holds a record for a question, an answer event of
\* either shape from it for that question changes nothing (the record and the
\* ordinal counters stay) and broadcasts nothing; and a record, once written,
\* is the same for as long as its participant stays connected.
C1_FirstAnswerWins ==
  /\ [](\A p \in connections : \A q \in DOMAIN users[p].answers :
          /\ \A a \in AnswerIds : onAnswer(Room, p, q, a) = Room
          /\ \A v \in SliderValues : onSliderAnswer(Room, p, q, v) = Room)
  /\ [][ \A p \in (DOMAIN users) \cap (DOMAIN users') :
           \A q \in DOMAIN users[p].answers :
              /\ Has(users'[p].answers, q)
              /\ users'[p].answers[q] = users[p].answers[q] ]_vars

\* During the answers a participant holds a choice record and another a slider
\* record, the first written for the current question.
C1_Witness ==
  /\ phase = "ANSWERING" /\ currentQuestionIndex < Len(questions)
  /\ \E p \in connections :
        /\ Has(users[p].answers, questions[currentQuestionIndex + 1].id)
        /\ users[p].answers[questions[currentQuestionIndex + 1].id].answerOrder = 1
        /\ onSliderAnswer(Room, p, questions[currentQuestionIndex + 1].id, 5) = Room
  /\ \E p \in connections, q \in QuestionIds :
        Has(users[p].answers, q) /\ users[p].answers[q].value.type = "slider"

\* The events a connection may send while the answers are collected.
AnswerResults ==
  { onAnswer(Room, p, q, a) : p \in connections, q \in QuestionIds, a \in AnswerIds }
    \cup { onSliderAnswer(Room, p, q, v) :
             p \in connections, q \in QuestionIds, v \in SliderValues }

\* C3: with at least 2 connections and no join or leave, an event advances
\* the room past the current question exactly if, after it, every connection
\* holds an answer for that question: no event advances it earlier, and the
\* room does not stay on a question every connection has answered.
C3_AdvanceExactlyWhenAllAnswered ==
  ( /\ phase = "ANSWERING" /\ Cardinality(connections) >= 2
    /\ currentQuestionIndex < Len(questions) ) =>
    \A r \in AnswerResults :
       (r.currentQuestionIndex # currentQuestionIndex) <=>
       (\A c \in connections :
          Has(r.users[c].answers, questions[currentQuestionIndex + 1].id))

\* -------------------------------------------------------------- the phases
\* A whole game of two: from the lobby to the reveal, with the narrative and
\* the insights arriving at any time after the results.
PhaseNext ==
  \/ \E id \in Pair : Connect(id, "Swift Panda")
  \/ \E id \in Pair : Close(id)
  \/ \E p \in Pair, deck \in DeckNames : ConfigureLobby(p, deck)
  \/ \E p \in Pair : StartGame(p)
  \/ \E p \in Pair : IntroReady(p)
  \/ \E p \in Pair : Answer(p, "happiness", "a1")
  \/ \E p \in Pair : SliderAnswer(p, "focus_strengths_vs_weaknesses", 5)
  \/ \E p \in Pair : PlayerReady(p)
  \/ \E p \in Pair : TransitionToRevealCmd(p)
  \/ \E story \in {"story", "fallback"} : NarrativeDone(story)
  \/ \E reason \in {"insight", "fallback"} : InsightsDone(reason)

SpecPhase == Init /\ [][PhaseNext]_vars

PhaseSuccessor ==
  { << "LOBBY", "INTRO" >>, << "INTRO", "ANSWERING" >>,
    << "ANSWERING", "RESULTS" >>, << "RESULTS", "REVEAL" >> }

\* C2: every change of the phase goes from a phase to its immediate successor
\* in the order LOBBY, INTRO, ANSWERING, RESULTS, REVEAL: never backward, never
\* past a phase, never out of REVEAL.
C2_PhaseOrder ==
  [][ phase' # phase => << phase, phase' >> \in PhaseSuccessor ]_vars

\* The room has gone through every phase: it is in REVEAL, with the answers
\* and the narrative of its RESULTS.
C2_Witness ==
  /\ phase = "REVEAL" /\ currentQuestionIndex = Len(questions)
  /\ truthy(narrativeStory)

\* --------------------------------------------------------------- the reveal
\* The chat ids of two different participants.
PairChatIds == { getChatId(a, b) : a \in Ids, b \in Ids } \ { getChatId(a, a) : a \in Ids }

\* A game of two played to the reveal, then reveal requests between the two,
\* chat closes and departures.
RevealNext ==
  \/ \E id \in Pair : Connect(id, "Swift Panda")
  \/ \E id \in Pair : Close(id)
  \/ \E p \in Pair : ConfigureLobby(p, "(not yet) friends")
  \/ \E p \in Pair : StartGame(p)
  \/ \E p \in Pair : IntroReady(p)
  \/ \E p \in Pair, q \in DeckQuestionIds : Answer(p, q, "a1")
  \/ \E p \in Pair : TransitionToRevealCmd(p)
  \/ \E p \in Pair : \E target \in Pair \ {p} : RevealRequest(p, target)
  \/ \E p \in Pair, c \in PairChatIds : ChatCloseRequest(p, c)

SpecReveal == Init /\ [][RevealNext]_vars

\* The CHAT_STARTED messages for this chat id that go to this connection.
chatStartedTo(out, chatId, u) ==
  Cardinality({ i \in 1..Len(out) :
                  /\ out[i].msg.type = "CHAT_STARTED"
                  /\ out[i].msg.chatId = chatId
                  /\ u \in out[i].to })

\* The last entry of this participant's history of a chat, or "none".
lastKind(chatId, u) ==
  LET log == GetOr(chatLog, << chatId, u >>, << >>) IN
  IF log = << >> THEN "none" ELSE log[Len(log)].kind

\* C4: while the chat session of a pair A, B is open, a reveal request between
\* A and B in either direction creates nothing and sends no chat-started; a
\* session is never replaced while it is open; and chat-started for a pair is
\* sent only by the event that creates its session, once to each of the two.
C4_MutualRevealOnce ==
  /\ [](\A a \in connections : \A b \in connections \ {a} :
          Has(activeChats, getChatId(a, b)) =>
            LET r == onRevealRequest(Room, a, b) IN
              /\ r.activeChats = activeChats
              /\ \A u \in Ids : chatStartedTo(r.out, getChatId(a, b), u) = 0)
  /\ [][ \A c \in PairChatIds :
           /\ (Has(activeChats, c) /\ Has(activeChats', c)) =>
                 activeChats'[c] = activeChats[c]
           /\ \A u \in Ids :
                chatStartedTo(sent', c, u) =
                  IF /\ ~Has(activeChats, c) /\ Has(activeChats', c)
                     /\ u \in { activeChats'[c].participants[1],
                                activeChats'[c].participants[2] }
                    THEN 1 ELSE 0 ]_vars

\* A repeated reveal request has just been handled while the pair's only
\* session was open: the target got its notification and nothing else was sent.
C4_Witness ==
  /\ phase = "REVEAL"
  /\ \E a \in connections : \E b \in connections \ {a} :
       /\ Has(activeChats, getChatId(a, b))
       /\ isMutualReveal(Room, a, b)
       /\ sessionsStarted(chatLog[<< getChatId(a, b), a >>]) = 1
       /\ Len(sent) = 1
       /\ sent[1].msg.type = "REVEAL_REQUEST_NOTIFICATION"
       /\ sent[1].msg.requesterId = a /\ sent[1].to = {b}

\* C5 as stated: once the session of a pair has been closed on request, with
\* both still connected (so both reveal edges remain), a reveal request between
\* the two creates no session.
C5_NoSessionAfterClose ==
  \A a \in connections : \A b \in connections \ {a} :
    ( /\ lastKind(getChatId(a, b), a) = "closed"
      /\ isMutualReveal(Room, a, b)
      /\ ~Has(activeChats, getChatId(a, b)) ) =>
      ~Has(onRevealRequest(Room, a, b).activeChats, getChatId(a, b))

\* The session of this pair is created by this result, with one chat-started
\* to each of the two.
reopens(r, a, b) ==
  /\ Has(r.activeChats, getChatId(a, b))
  /\ chatStartedTo(r.out, getChatId(a, b), a) = 1
  /\ chatStartedTo(r.out, getChatId(a, b), b) = 1

\* C5 amended: a chat-close request from a participant removes the pair's
\* session and leaves every reveal edge in place; the guard blocks a reveal
\* request only while the session is open, so the next reveal request between
\* the two, in either direction, creates a new session and sends chat-started
\* to both.
C5_ReopensAfterClose ==
  /\ \A c \in (DOMAIN activeChats) \cap PairChatIds :
       LET a == activeChats[c].participants[1]
           b == activeChats[c].participants[2]
       IN \A p \in {a, b} :
            LET r == onChatCloseRequest(Room, p, c) IN
              /\ ~Has(r.activeChats, c)
              /\ r.revealRequests = revealRequests
              /\ reopens(onRevealRequest([r EXCEPT !.out = << >>], a, b), a, b)
              /\ reopens(onRevealRequest([r EXCEPT !.out = << >>], b, a), a, b)
  /\ \A a \in connections : \A b \in connections \ {a} :
       ( /\ lastKind(getChatId(a, b), a) = "closed"
         /\ isMutualReveal(Room, a, b)
         /\ ~Has(activeChats, getChatId(a, b)) ) =>
         reopens(onRevealRequest(Room, a, b), a, b)

\* The pair's session has just been closed on request: both got chat-closed,
\* both edges remain, no session is open.
C5_Witness ==
  \E a \in connections : \E b \in connections \ {a} :
    /\ lastKind(getChatId(a, b), a) = "closed"
    /\ isMutualReveal(Room, a, b)
    /\ ~Has(activeChats, getChatId(a, b))
    /\ Len(sent) = 2
    /\ \A i \in 1..2 : sent[i].msg.type = "CHAT_CLOSED"

\* ----------------------------------------------------------------- the chat
\* The participant whose chat messages are followed.
Chatters == {"u1"}

\* A game of two played to the reveal without departures, each event sent in
\* the phase that handles it and each answer given to the current question;
\* then reveal requests between the two while their chat is not open, chat
\* messages of one of them, chat closes, and the clock advancing while a chat
\* is open.
ChatNext ==
  \/ \E id \in Pair : Connect(id, "Swift Panda")
  \/ \E p \in Chatters : phase = "LOBBY" /\ ConfigureLobby(p, "(not yet) friends")
  \/ \E p \in Chatters : phase = "LOBBY" /\ StartGame(p)
  \/ \E p \in Pair : phase = "INTRO" /\ IntroReady(p)
  \/ \E p \in Pair, q \in DeckQuestionIds :
        /\ phase = "ANSWERING"
        /\ q = questions[currentQuestionIndex + 1].id
        /\ Answer(p, q, "a1")
  \/ \E p \in Chatters : phase = "RESULTS" /\ TransitionToRevealCmd(p)
  \/ \E p \in Pair : \E target \in Pair \ {p} :
        ~Has(activeChats, getChatId(p, target)) /\ RevealRequest(p, target)
  \/ \E p \in Chatters, c \in PairChatIds, text \in ChatTexts : ChatMessage(p, c, text)
  \/ \E p \in Chatters, c \in PairChatIds : ChatCloseRequest(p, c)
  \/ \E d \in TickSteps : activeChats # EmptyMap /\ Tick(d)

SpecChat == Init /\ [][ChatNext]_vars

\* The chat-send events of a history.
isSend(e) == e.kind \in {"delivered", "dropped"}

SetMax(S) == CHOOSE x \in S : \A y \in S : y <= x

\* The entry that began the session entry i belongs to.
sessionStart(log, i) ==
  SetMax({ j \in 1..i : log[j].kind = "started" })

\* The messages of the same session delivered before entry i.
deliveredBefore(log, i) ==
  { j \in sessionStart(log, i)..(i - 1) : log[j].kind = "delivered" }

\* Entry j was delivered as the first of its session, or 10 s or more after the
\* message delivered before it.
opensCount(log, j) ==
  /\ log[j].kind = "delivered"
  /\ \/ deliveredBefore(log, j) = {}
     \/ log[j].at - log[SetMax(deliveredBefore(log, j))].at >= 10000

\* The messages delivered before entry i since the count was last opened.
countedBefore(log, i) ==
  { j \in deliveredBefore(log, i) :
      j >= SetMax({ k \in deliveredBefore(log, i) : opensCount(log, k) }) }

\* C6 as stated: take any chat-send of a session as the start of a 10-second
\* window, later than whatever the participant sent before it; when it and the
\* next 10 sends fall inside the window, exactly 10 of the 11 are delivered, and
\* the send after them, when it comes after the window, is delivered.
C6_AnyWindow ==
  \A key \in DOMAIN chatLog :
    LET log == chatLog[key] IN
    \A i \in 1..Len(log) :
      ( /\ i + 10 <= Len(log)
        /\ \A k \in i..(i + 10) : isSend(log[k]) /\ log[k].at < log[i].at + 10000
        /\ isSend(log[i - 1]) => log[i - 1].at < log[i].at ) =>
        /\ Cardinality({ k \in i..(i + 10) : log[k].kind = "delivered" }) = 10
        /\ ( /\ i + 11 <= Len(log) /\ isSend(log[i + 11])
             /\ log[i + 11].at >= log[i].at + 10000 ) =>
             log[i + 11].kind = "delivered"

\* C6 amended: the count of a participant opens with the first message of a
\* session and with every message sent 10 s or more after that participant's
\* last delivered message; such a message is always delivered.  A message sent
\* less than 10 s after the last delivered one is delivered when fewer than 10
\* messages have been delivered since the count opened, and dropped otherwise.
\* So of sends that each follow the last delivered one by less than 10 s the
\* first 10 are delivered and every further one is dropped.  (Stated of the
\* latest send of every history: histories only grow, so every send is the
\* latest one in the state its event leaves.)
C6_TenSinceCountOpened ==
  \A key \in DOMAIN chatLog :
    LET log == chatLog[key]
        i == Len(log)
    IN isSend(log[i]) =>
         ( log[i].kind = "delivered" <=>
             \/ deliveredBefore(log, i) = {}
             \/ log[i].at - log[SetMax(deliveredBefore(log, i))].at >= 10000
             \/ Cardinality(countedBefore(log, i)) < 10 )

\* Eleven sends at the opening of a session gave 10 delivered and 1 dropped,
\* and the send 10 s later was delivered.
C6_Witness ==
  \E key \in DOMAIN chatLog :
    LET log == chatLog[key] IN
    \E i \in 1..Len(log) :
      /\ i + 12 <= Len(log)
      /\ log[i].kind = "started"
      /\ \A k \in (i + 1)..(i + 10) : log[k].kind = "delivered"
      /\ log[i + 11].kind = "dropped"
      /\ log[i + 11].at - log[i + 1].at < 10000
      /\ log[i + 12].kind = "delivered"
      /\ log[i + 12].at - log[i + 10].at >= 10000

\* C7: for every participant of a chat and every interval of 10 seconds that
\* begins with one of its chat events, at most 10 of the participant's
\* messages are delivered to the partner within the interval.
C7_AtMostTenPerInterval ==
  \A key \in DOMAIN chatLog :
    LET log == chatLog[key] IN
    \A i \in 1..Len(log) :
      Cardinality({ j \in 1..Len(log) :
                      /\ log[j].kind = "delivered"
                      /\ log[j].at >= log[i].at
                      /\ log[j].at < log[i].at + 10000 }) <= 10

\* ------------------------------------------------------------- the quorums
\* The share of the connected participants that is in a ready set is 75% or
\* more.
readyShareReached(ready) ==
  /\ connections # {}
  /\ 100 * Cardinality(ready \cap connections) >= 75 * Cardinality(connections)

\* C11: no state left by an event has the phase INTRO with 75% or more of the
\* connected participants intro-ready.
C11_NoIntroStateAtQuorum ==
  ~(phase = "INTRO" /\ readyShareReached(introReadyPlayers))

\* C12: no state left by an event has the phase RESULTS with 75% or more of
\* the connected participants player-ready.
C12_NoResultsStateAtQuorum ==
  ~(phase = "RESULTS" /\ readyShareReached(resultsReadyPlayers))

\* C13: in RESULTS a transition-to-reveal command from any connected
\* participant leaves the phase REVEAL, whatever the ready set and the state of
\* the narrative; in every other phase it leaves the room as it was and sends
\* nothing.
C13_ContinueCommand ==
  \A p \in connections :
    IF phase = "RESULTS"
      THEN onTransitionToReveal(Room, p).phase = "REVEAL"
      ELSE onTransitionToReveal(Room, p) = Room

\* The command has just taken the room to REVEAL with nobody ready and the
\* narrative still being generated.
C13_Witness ==
  /\ phase = "REVEAL" /\ resultsReadyPlayers = {}
  /\ narrativeTask > 0 /\ narrativeStory = NULL
  /\ Len(sent) = 1 /\ sent[1].msg.type = "PHASE_CHANGE" /\ sent[1].msg.phase = "REVEAL"

\* -------------------------------------------------- leaving while answering
\* A game of up to three with departures and returns at any time, answers
\* going to the question on display.
LeaveNext ==
  \/ \E id \in Ids : Connect(id, "Swift Panda")
  \/ \E id \in Ids : Close(id)
  \/ \E p \in Ids : ConfigureLobby(p, "(not yet) friends")
  \/ \E p \in Ids : StartGame(p)
  \/ \E p \in Ids : IntroReady(p)
  \/ \E p \in Ids :
       /\ currentQuestionIndex < Len(questions)
       /\ Answer(p, questions[currentQuestionIndex + 1].id, "a1")

SpecLeave == Init /\ [][LeaveNext]_vars

\* The connections that hold an answer record for this question id.
holders(us, q) == { c \in DOMAIN us : Has(us[c].answers, q) }

\* C14: a step that increases currentQuestionIndex is an accepted answer or a
\* disconnect, and it leaves every connected participant holding an answer
\* record for the question the index pointed at before the step.
C14_AdvanceOnlyWhenAllAnswered ==
  [][ currentQuestionIndex' > currentQuestionIndex =>
        /\ questions' = questions
        /\ currentQuestionIndex < Len(questions)
        /\ connections' \subseteq
             holders(users', questions[currentQuestionIndex + 1].id)
        /\ \/ \E p \in connections : connections' = connections \ {p}
           \/ /\ connections' = connections
              /\ \E p \in connections, q \in QuestionIds :
                   ~Has(users[p].answers, q) /\ Has(users'[p].answers, q) ]_vars

\* The last missing answer to the first question has just moved the room to
\* the second question.
C14_Witness ==
  /\ phase = "ANSWERING" /\ currentQuestionIndex = 1
  /\ Cardinality(connections) >= 2
  /\ Len(sent) = 2
  /\ sent[1].msg.type = "PLAYER_ANSWERED" /\ sent[2].msg.type = "QUESTION_ADVANCE"

\* The room after this participant's disconnect, when everybody else holds an
\* answer for the current question.
leaveUnblocks(p) ==
  /\ phase = "ANSWERING"
  /\ connections \ {p} \subseteq holders(users, questions[currentQuestionIndex + 1].id)

\* C15 as stated: in ANSWERING, when all the participants that remain after a
\* disconnect (one or more) hold an answer for the current question, the
\* disconnect advances currentQuestionIndex.
C15_LeaveAdvancesAnyRemaining ==
  \A p \in connections :
    (leaveUnblocks(p) /\ connections # {p}) =>
      leave(Room, p).currentQuestionIndex = currentQuestionIndex + 1

\* C15 amended: when two or more participants remain and all of them hold an
\* answer for the current question, the disconnect itself advances
\* currentQuestionIndex by one, entering RESULTS from the last question and
\* staying in ANSWERING otherwise; when fewer than two remain the disconnect
\* leaves the index and the phase as they were.
C15_LeaveAdvancesWithTwoRemaining ==
  \A p \in connections :
    leaveUnblocks(p) =>
      LET r == leave(Room, p) IN
      IF Cardinality(connections \ {p}) >= 2
        THEN /\ r.currentQuestionIndex = currentQuestionIndex + 1
             /\ r.phase = IF currentQuestionIndex + 1 = Len(questions)
                            THEN "RESULTS" ELSE "ANSWERING"
        ELSE r.currentQuestionIndex = currentQuestionIndex /\ r.phase = phase

\* A disconnect has just advanced the room of the two that remain.
C15_Witness ==
  /\ Cardinality(connections) = 2
  /\ Len(sent) >= 2
  /\ sent[1].msg.type = "leave"
  /\ \/ sent[2].msg.type = "QUESTION_ADVANCE" /\ phase = "ANSWERING"
     \/ sent[2].msg.type = "PHASE_CHANGE" /\ phase = "RESULTS"

\* ------------------------------------------------------------------ the score
\* A game of two that stay: answers of either shape, with any admitted slider
\* value, to either question of the deck, whatever its kind.
ScoreNext ==
  \/ \E id \in Pair : Connect(id, "Swift Panda")
  \/ \E p \in Pair : ConfigureLobby(p, "(not yet) friends")
  \/ \E p \in Pair : StartGame(p)
  \/ \E p \in Pair : IntroReady(p)
  \/ \E p \in Pair, q \in DeckQuestionIds, a \in AnswerIds : Answer(p, q, a)
  \/ \E p \in Pair, q \in DeckQuestionIds, v \in SliderValues : SliderAnswer(p, q, v)

SpecScore == Init /\ [][ScoreNext]_vars

\* The score of two participants of the room as it is now.
score(a, b) == calculateCompatibility(Room, users[a], users[b])

\* The questions both hold a record for.
jointly(a, b) == (DOMAIN users[a].answers) \cap (DOMAIN users[b].answers)

\* C16: the score of every pair of participants is at least 0 and at most 1.
C16_ScoreInUnitInterval ==
  \A a, b \in DOMAIN users :
    0 <= score(a, b).num /\ score(a, b).num <= score(a, b).den

\* The shape of the two answers to a question: "choice" or "slider" when both
\* have it, "mixed" otherwise.
shapes(a, b, q) ==
  LET x == users[a].answers[q].value.type
      y == users[b].answers[q].value.type
  IN IF x = y THEN x ELSE "mixed"

\* Whether the question list has a slider question of this id.
isSliderQuestion(q) ==
  \E i \in 1..Len(questions) : questions[i].id = q /\ questions[i].type = "SLIDER"

positionsOf(q) ==
  questions[CHOOSE i \in 1..Len(questions) : questions[i].id = q].positions

choiceMatch100(a, b, q) ==
  IF users[a].answers[q].value.answerId = users[b].answers[q].value.answerId
    THEN 100 ELSE 0

sliderDistance(a, b, q) ==
  Abs(users[a].answers[q].value.value - users[b].answers[q].value.value)

\* 1 - |x - y| / (positions - 1) in hundredths, exact match for one position.
sliderProximity100(a, b, q) ==
  IF positionsOf(q) = 1
    THEN (IF sliderDistance(a, b, q) = 0 THEN 100 ELSE 0)
    ELSE 100 - (100 * sliderDistance(a, b, q)) \div (positionsOf(q) - 1)

\* The cases the statement names: two choice answers, or two slider answers
\* to a slider question.
named(a, b, q) ==
  \/ shapes(a, b, q) = "choice"
  \/ shapes(a, b, q) = "slider" /\ isSliderQuestion(q)

statedContribution100(a, b, q) ==
  IF shapes(a, b, q) = "choice" THEN choiceMatch100(a, b, q)
  ELSE sliderProximity100(a, b, q)

\* C17 as stated: the score is the sum of the choice and slider contributions
\* of the jointly answered questions over their number, every jointly
\* answered question being a choice or a slider case, and 0 when there is none.
C17_ScoreIsStatedSum ==
  \A a, b \in DOMAIN users :
    IF jointly(a, b) = {} THEN score(a, b).num = 0
    ELSE /\ \A q \in jointly(a, b) : named(a, b, q)
         /\ score(a, b).den = 100 * Cardinality(jointly(a, b))
         /\ score(a, b).num =
              SumOver(jointly(a, b),
                      [q \in jointly(a, b) |-> statedContribution100(a, b, q)])

shapeContribution100(a, b, q) ==
  CASE shapes(a, b, q) = "choice" -> choiceMatch100(a, b, q)
    [] shapes(a, b, q) = "slider" /\ isSliderQuestion(q) -> sliderProximity100(a, b, q)
    [] shapes(a, b, q) = "slider" /\ ~isSliderQuestion(q) -> 100 - sliderDistance(a, b, q)
    [] OTHER -> 0

\* C17 amended: the score is the sum over the jointly answered questions of
\* the contribution chosen by the shape of the two answers (two choices: 1 if
\* equal else 0; two slider values on a slider question: 1 - |a - b| /
\* (positions - 1); two slider values on any other question id: 1 - |a - b| /
\* 100; one choice and one slider value: 0), divided by the number of jointly
\* answered questions, and 0 when there is none.
C17_ScoreIsSumByShape ==
  \A a, b \in DOMAIN users :
    IF jointly(a, b) = {} THEN score(a, b).num = 0
    ELSE /\ score(a, b).den = 100 * Cardinality(jointly(a, b))
         /\ score(a, b).num =
              SumOver(jointly(a, b),
                      [q \in jointly(a, b) |-> shapeContribution100(a, b, q)])

\* The two have answered the choice question alike and the 6-position slider
\* at 0 and at 5: the score is one half.
C17_Witness ==
  /\ phase = "RESULTS"
  /\ DOMAIN users = Pair
  /\ jointly("u1", "u2") = DeckQuestionIds
  /\ shapes("u1", "u2", "happiness") = "choice"
  /\ shapes("u1", "u2", "focus_strengths_vs_weaknesses") = "slider"
  /\ choiceMatch100("u1", "u2", "happiness") = 100
  /\ sliderDistance("u1", "u2", "focus_strengths_vs_weaknesses") = 5
  /\ score("u1", "u2") = [num |-> 100, den |-> 200]


\* ---------------------------------------------------------------- the colours
\* A room of up to MaxRoom.  The connection that joins is the lowest-numbered
\* one that is not connected.  While at most FreeLeaves are connected anybody
\* may leave; from a full room the one that leaves is the lowest-numbered of
\* those whose place a newcomer would take with another colour.
ColorNames ==
  << "c01", "c02", "c03", "c04", "c05", "c06", "c07", "c08",
     "c09", "c10", "c11", "c12", "c13", "c14", "c15", "c16",
     "c17", "c18", "c19", "c20", "c21", "c22", "c23", "c24" >>
colorId(i) == ColorNames[i]
ColorIds == { colorId(i) : i \in 1..MaxRoom }
colorRank(id) == CHOOSE i \in 1..MaxRoom : colorId(i) = id

Palette == { FLEXOKI_200[i] : i \in 1..Len(FLEXOKI_200) }

\* Whether a newcomer after this one's departure gets another colour than its.
recolours(id) == getUniqueColor(leave(Room, id)) # users[id].color

recoloured == { id \in connections : recolours(id) }

ColorNext ==
  \/ \E id \in ColorIds :
       /\ \A other \in ColorIds \ connections : colorRank(id) <= colorRank(other)
       /\ Connect(id, "Swift Panda")
  \/ \E id \in ColorIds :
       /\ Cardinality(connections) <= FreeLeaves
       /\ Close(id)
  \/ /\ connections = ColorIds
     /\ \E id \in recoloured :
          /\ \A other \in recoloured : colorRank(id) <= colorRank(other)
          /\ Close(id)

SpecColor == Init /\ [][ColorNext]_vars

colorOf(id) == users[id].color

\* C18 as stated: the colours of the connected participants are pairwise
\* distinct, and when at most 8 are connected each colour is a palette colour.
C18_DistinctAndBaseUpToEight ==
  /\ \A a, b \in connections : a # b => colorOf(a) # colorOf(b)
  /\ Cardinality(connections) <= Len(FLEXOKI_200) =>
       \A a \in connections : colorOf(a) \in Palette

\* C18 amended: the colours of the connected participants are pairwise
\* distinct; a participant keeps its colour while connected; and the colour
\* given on connect is a palette colour exactly when some palette colour is
\* held by nobody at that moment, the first such one in palette order.
C18_DistinctAndBaseWhenFree ==
  /\ [](\A a, b \in connections : a # b => colorOf(a) # colorOf(b))
  /\ [][ /\ \A a \in connections \cap connections' : users'[a].color = colorOf(a)
         /\ \A a \in connections' \ connections :
              IF Palette \subseteq usedColors(Room)
                THEN users'[a].color \notin Palette
                ELSE \E i \in 1..Len(FLEXOKI_200) :
                       /\ users'[a].color = FLEXOKI_200[i]
                       /\ FLEXOKI_200[i] \notin usedColors(Room)
                       /\ \A j \in 1..(i - 1) : FLEXOKI_200[j] \in usedColors(Room)
       ]_vars

\* The newcomer's first variant was held, and it has been given the next.
C18_Witness ==
  /\ connections = ColorIds
  /\ Len(sent) > 0 /\ sent[1].msg.type = "join"
  /\ sent[1].msg.color = variantColor(FLEXOKI_200[4], 3)
  /\ \E a \in connections : colorOf(a) = variantColor(FLEXOKI_200[4], 2)

\* C19: the colour allocation of the next connect ends.
C19_AllocationTerminates == getUniqueColor(Room) # NULL


\* -------------------------------------------------------- the third party
\* A game of two played to the reveal, each event sent in the phase that
\* handles it; a third participant joins during the reveal; then reveal
\* requests between u1 and the others until the pair has had its chat, chat
\* messages from any of the three for any pair's chat id while the sender's
\* history of that chat is shorter than MaxThirdLog, and u1 closing a chat
\* while no other is open.
ThirdNext ==
  \/ \E id \in Pair : phase = "LOBBY" /\ Connect(id, "Swift Panda")
  \/ phase = "REVEAL" /\ Connect("u3", "Cozy Fox")
  \/ \E p \in Chatters : phase = "LOBBY" /\ ConfigureLobby(p, "(not yet) friends")
  \/ \E p \in Chatters : phase = "LOBBY" /\ StartGame(p)
  \/ \E p \in Pair : phase = "INTRO" /\ IntroReady(p)
  \/ \E p \in Pair :
        /\ phase = "ANSWERING"
        /\ Answer(p, questions[currentQuestionIndex + 1].id, "a1")
  \/ \E p \in Chatters : phase = "RESULTS" /\ TransitionToRevealCmd(p)
  \/ \E p \in Ids : \E target \in Ids \ {p} :
        /\ Chatters \cap {p, target} # {}
        /\ ~Has(activeChats, getChatId(p, target))
        /\ ~Has(chatLog, << getChatId(p, target), p >>)
        /\ RevealRequest(p, target)
  \/ \E p \in Ids, c \in PairChatIds, text \in ChatTexts :
        /\ Len(GetOr(chatLog, << c, p >>, << >>)) < MaxThirdLog
        /\ ChatMessage(p, c, text)
  \/ \E p \in Chatters, c \in PairChatIds :
        /\ \A q \in PairChatIds : Has(activeChats, q) => q = c
        /\ ChatCloseRequest(p, c)

SpecThird == Init /\ [][ThirdNext]_vars

\* The other participant of a session.
partnerOf(chatSession, sender) ==
  IF chatSession.participants[1] = sender
    THEN chatSession.participants[2]
    ELSE chatSession.participants[1]

\* C20: a chat-send for a chat id without a session, or from a connection that
\* is not one of the session's two participants, changes nothing and sends
\* nothing; any other chat-send sends at most one message, a chat message
\* addressed to the other participant of the session alone.
C20_ChatSendToPartnerOnly ==
  \A p \in connections, c \in PairChatIds, text \in ChatTexts :
    LET r == onChatMessage(Room, p, c, text) IN
    IF Has(activeChats, c) /\ p \in { activeChats[c].participants[1],
                                      activeChats[c].participants[2] }
      THEN \/ r.out = << >>
           \/ /\ Len(r.out) = 1
              /\ r.out[1].msg.type = "CHAT_MESSAGE"
              /\ r.out[1].msg.chatId = c /\ r.out[1].msg.fromId = p
              /\ r.out[1].to = { partnerOf(activeChats[c], p) }
              /\ p \notin r.out[1].to
      ELSE r = Room

\* With three connected and two chats open, a message of u1 in its chat with
\* u2 has just been delivered, to u2 alone.
C20_Witness ==
  /\ connections = Ids
  /\ Has(activeChats, getChatId("u1", "u2"))
  /\ Has(activeChats, getChatId("u1", "u3"))
  /\ Len(sent) = 1
  /\ sent[1].msg.type = "CHAT_MESSAGE" /\ sent[1].msg.fromId = "u1"
  /\ sent[1].msg.chatId = getChatId("u1", "u2")
  /\ sent[1].to = {"u2"}


\* ------------------------------------------------------------ closing a chat
\* The third-party game, with any of the three disconnecting during the reveal.
CloseNext ==
  \/ ThirdNext
  \/ \E id \in Ids : phase = "REVEAL" /\ Close(id)

SpecClose == Init /\ [][CloseNext]_vars

\* Nothing of the chat is left in the room.
chatGone(r, c) ==
  /\ ~Has(r.activeChats, c)
  /\ ~Has(r.chatMessageCounts, c)
  /\ ~Has(r.chatMessageTimestamps, c)

\* The connections a chat-closed message for this chat has been sent to.
closedSentTo(r, c) ==
  UNION { r.out[i].to : i \in { j \in 1..Len(r.out) :
                                  /\ r.out[j].msg.type = "CHAT_CLOSED"
                                  /\ r.out[j].msg.chatId = c } }

participantsOf(c) == { activeChats[c].participants[1], activeChats[c].participants[2] }

\* C21: a chat-close request from a participant of the session, and the
\* disconnect of a participant, leave no session record, message counter or
\* window timestamp for the chat id and send chat-closed to every participant
\* of the session that is connected afterwards; a close request for a chat id
\* without a session or from a non-participant changes nothing.
C21_CloseDeletesAndNotifies ==
  /\ \A p \in connections, c \in PairChatIds :
       LET r == onChatCloseRequest(Room, p, c) IN
       IF Has(activeChats, c) /\ p \in participantsOf(c)
         THEN /\ chatGone(r, c)
              /\ closedSentTo(r, c) = participantsOf(c) \cap r.connections
         ELSE r = Room
  /\ \A p \in connections :
       LET r == leave(Room, p) IN
       \A c \in DOMAIN activeChats :
         p \in participantsOf(c) =>
           /\ chatGone(r, c)
           /\ closedSentTo(r, c) = participantsOf(c) \cap r.connections

\* u1 has just disconnected with its two chats open: both are gone and each
\* partner has been sent the chat-closed of its chat.
C21_Witness ==
  /\ connections = {"u2", "u3"}
  /\ activeChats = EmptyMap /\ chatMessageCounts = EmptyMap
  /\ chatMessageTimestamps = EmptyMap
  /\ Len(sent) = 3
  /\ sent[3].msg.type = "leave" /\ sent[3].msg.id = "u1"
  /\ \E i, j \in 1..2 :
       /\ sent[i].msg.type = "CHAT_CLOSED" /\ sent[i].to = {"u2"}
       /\ sent[i].msg.chatId = getChatId("u1", "u2")
       /\ sent[j].msg.type = "CHAT_CLOSED" /\ sent[j].to = {"u3"}
       /\ sent[j].msg.chatId = getChatId("u1", "u3")


\* ----------------------------------------------------------------- the nudges
\* A lobby of up to three, of which u1 and u3 come and go, with u1 and u2
\* nudging the others and themselves, connected or not, while the clock
\* advances.
NudgeNext ==
  \/ \E id \in Ids : Connect(id, "Swift Panda")
  \/ \E id \in Ids \ {"u2"} : Close(id)
  \/ \E p \in Pair, target \in Ids : Nudge(p, target)
  \/ \E d \in TickSteps : Tick(d)

SpecNudge == Init /\ [][NudgeNext]_vars

\* The cooldown timestamp the room holds for an ordered pair, 0 when none.
cooldownOf(cooldowns, a, b) == GetOr(GetOr(cooldowns, a, EmptyMap), b, 0)

\* The messages of a handler say the nudge was accepted: the success status
\* for the sender.
saysAccepted(out, p, target) ==
  \E i \in 1..Len(out) :
    /\ out[i].msg.type = "NUDGE_STATUS"
    /\ out[i].msg.success
    /\ out[i].msg.targetId = target
    /\ out[i].to = {p}

\* C22: for each ordered pair, a nudge is accepted only 10 seconds or more
\* after the last accepted nudge of the pair, and no nudge changes the
\* cooldown timestamp of another ordered pair.
C22_AcceptedNudgesTenSecondsApart ==
  /\ [][ \A p \in Ids, target \in Ids :
           (saysAccepted(sent', p, target) /\ Has(nudgeLog, << p, target >>)) =>
             now' - nudgeLog[<< p, target >>] >= NUDGE_COOLDOWN_MS ]_vars
  /\ [](\A p \in connections, target \in Ids :
          \A a \in Ids, b \in Ids :
            << a, b >> # << p, target >> =>
              cooldownOf(onNudge(Room, p, target).nudgeCooldowns, a, b)
                = cooldownOf(nudgeCooldowns, a, b))


\* C23: a nudge of the sender itself, or of an id that is not a connected
\* participant, is answered with one failure status to the sender and nothing
\* else: no other message, and no change of the room, its cooldown timestamps
\* included.
C23_BadTargetRejected ==
  \A p \in connections, target \in Ids :
    (target = p \/ target \notin connections) =>
      LET r == onNudge(Room, p, target) IN
      /\ Len(r.out) = 1
      /\ r.out[1].to = {p}
      /\ r.out[1].msg.type = "NUDGE_STATUS"
      /\ ~r.out[1].msg.success
      /\ r.out[1].msg.targetId = target
      /\ [r EXCEPT !.out = << >>] = Room

\* u1 has just nudged u3, which is not connected, after an accepted nudge of
\* u2: it has been sent the failure status, and holds no cooldown for u3.
C23_Witness ==
  /\ connections = Pair
  /\ Len(sent) = 1
  /\ sent[1].msg.type = "NUDGE_STATUS" /\ ~sent[1].msg.success
  /\ sent[1].msg.targetId = "u3" /\ sent[1].to = {"u1"}
  /\ cooldownOf(nudgeCooldowns, "u1", "u2") = now
  /\ cooldownOf(nudgeCooldowns, "u1", "u3") = 0

\* ------------------------------------------------- narrative generation
\* C24: at most one call of the external generator is outstanding at any
\* time; every entry into RESULTS starts exactly one call and nothing else
\* starts one; and a trigger of the generation that arrives while a call is
\* outstanding starts no second call.
C24_OneGenerationInFlight ==
  /\ [](narrativeTask <= 1)
  /\ [](narrativeTask > 0 =>
         /\ narrativeGenerationPromise = "pending"
         /\ generateAndSendNarrative(Room).narrativeTask = narrativeTask)
  /\ [][ (phase # "RESULTS" /\ phase' = "RESULTS")
           <=> narrativeTask' = narrativeTask + 1 ]_vars

\* A call is outstanding in RESULTS while a ready signal has come in.
C24_Witness ==
  /\ phase = "RESULTS" /\ narrativeTask = 1
  /\ resultsReadyPlayers # {}

\* The call of the external generator returns or fails in the end: the step
\* that settles it is taken once it stays possible.
\* The game of two participants, who leave and join again only from RESULTS on.
NarrativeNext ==
  \/ \E id \in Pair :
       phase \in {"LOBBY", "RESULTS", "REVEAL"} /\ Connect(id, "Swift Panda")
  \/ \E id \in Pair : phase \in {"RESULTS", "REVEAL"} /\ Close(id)
  \/ \E p \in Pair : ConfigureLobby(p, "(not yet) friends")
  \/ \E p \in Pair : StartGame(p)
  \/ \E p \in Pair : IntroReady(p)
  \/ \E p \in Pair : Answer(p, "happiness", "a1")
  \/ \E p \in Pair : SliderAnswer(p, "focus_strengths_vs_weaknesses", 5)
  \/ \E p \in Pair : PlayerReady(p)
  \/ \E p \in Pair : TransitionToRevealCmd(p)
  \/ \E story \in {"story", "fallback"} : NarrativeDone(story)

SpecNarrative ==
  /\ Init /\ [][NarrativeNext]_vars
  /\ WF_vars(\E story \in {"story", "fallback"} : NarrativeDone(story))

\* A NARRATIVE message has just gone to every open connection.
narrativeBroadcast ==
  \E i \in 1..Len(sent) :
    sent[i].msg.type = "NARRATIVE" /\ sent[i].to = connections

\* C25: once the room is in RESULTS without a narrative, a NARRATIVE message
\* is eventually broadcast, the story is stored and the in-flight marker is
\* null again, whatever joins, leaves, ready signals and phase changes come
\* in between.
C25_NarrativeEventuallyBroadcast ==
  (phase = "RESULTS" /\ narrativeStory = NULL)
    ~> (narrativeBroadcast /\ narrativeStory # NULL
        /\ narrativeGenerationPromise = NULL)

\* The call has settled after the room went on to REVEAL and a participant
\* left while it was pending: the one left has been sent the narrative.
C25_Witness ==
  /\ phase = "REVEAL" /\ narrativeBroadcast
  /\ narrativeTask = 0 /\ narrativeGenerationPromise = NULL
  /\ Cardinality(connections) = 1

\* ------------------------------------------------- the lobby configuration
\* C26: from the moment lobbyConfig is non-null, no step changes lobbyConfig,
\* the question list or hostId, and a configure-lobby event of any connection
\* with any deck leaves the room as it is and sends nothing.
C26_ConfigurationIsFinal ==
  /\ [][ lobbyConfig # NULL =>
           /\ lobbyConfig' = lobbyConfig
           /\ questions' = questions
           /\ hostId' = hostId ]_vars
  /\ [](lobbyConfig # NULL =>
         \A p \in Ids, deck \in DeckNames : onConfigureLobby(Room, p, deck) = Room)

\* The lobby is configured and still open, and the host has left it to the
\* other participant.
C26_Witness ==
  /\ phase = "LOBBY" /\ lobbyConfig # NULL
  /\ hostId \notin connections /\ connections # {}

\* ------------------------------------------------- out-of-phase commands
\* C27: a command that arrives outside its phase (an answer outside
\* ANSWERING, configure-lobby or start-game outside LOBBY, intro-ready outside
\* INTRO, player-ready or transition-to-reveal outside RESULTS,
\* reveal-request outside REVEAL) leaves the whole room as it is and sends
\* nothing, whichever connection sends it and whatever it carries.
C27_OutOfPhaseIgnored ==
  \A p \in connections :
    /\ phase # "ANSWERING" =>
         /\ \A q \in QuestionIds, a \in AnswerIds : onAnswer(Room, p, q, a) = Room
         /\ \A q \in QuestionIds, v \in SliderValues :
              onSliderAnswer(Room, p, q, v) = Room
    /\ phase # "LOBBY" =>
         /\ \A deck \in DeckNames : onConfigureLobby(Room, p, deck) = Room
         /\ onStartGame(Room, p) = Room
    /\ phase # "INTRO" => onIntroReady(Room, p) = Room
    /\ phase # "RESULTS" =>
         /\ onPlayerReady(Room, p) = Room
         /\ onTransitionToReveal(Room, p) = Room
    /\ phase # "REVEAL" =>
         \A target \in Ids : onRevealRequest(Room, p, target) = Room

\* In REVEAL, with both participants connected and the narrative stored, a
\* command of an earlier phase has just been handled: nothing was sent.
C27_Witness ==
  /\ phase = "REVEAL" /\ sent = << >>
  /\ connections = Pair /\ truthy(narrativeStory)
  /\ currentQuestionIndex = Len(questions)

\* ------------------------------------------------- answer content
\* The game of two with every answer id and slider value, each question
\* answered in its own shape, displayed or not, and a participant that leaves
\* and joins again while the questions are answered.
ContentNext ==
  \/ \E id \in Pair : Connect(id, "Swift Panda")
  \/ phase = "ANSWERING" /\ Close("u2")
  \/ \E p \in Pair : ConfigureLobby(p, "(not yet) friends")
  \/ \E p \in Pair : StartGame(p)
  \/ \E p \in Pair : IntroReady(p)
  \/ \E p \in Pair, a \in AnswerIds : Answer(p, "happiness", a)
  \/ \E p \in Pair, v \in SliderValues :
       SliderAnswer(p, "focus_strengths_vs_weaknesses", v)

SpecContent == Init /\ [][ContentNext]_vars

\* A value with its content replaced by a fixed one of its shape.
plain(value) ==
  IF value.type = "choice" THEN [type |-> "choice", answerId |-> "a1"]
                           ELSE [type |-> "slider", value |-> 5]

\* The room with the content of every answer record replaced.
contentFree(s) ==
  [s EXCEPT !.users =
     [u \in DOMAIN s.users |->
        [s.users[u] EXCEPT !.answers =
           [q \in DOMAIN s.users[u].answers |->
              [s.users[u].answers[q] EXCEPT !.value = plain(@)]]]]]

\* Handling an event in a room and handling it, with fixed content, in the
\* content-free room come out alike: both leave ANSWERING or both stay, and
\* when they stay the messages sent are the same and the rooms differ in
\* answer content only.
alike(r, f) ==
  /\ (r.phase = "ANSWERING") <=> (f.phase = "ANSWERING")
  /\ r.phase = "ANSWERING" => r.out = f.out /\ contentFree(r) = f

\* C28: while the phase is ANSWERING, every event (an answer of either shape
\* with any content to any question, a join, a leave) sends the messages, and
\* leads to the room but for answer content, that the same event with a fixed
\* answer id or slider value sends and leads to in the room whose records all
\* hold the fixed content.  Step by step, two executions of one event
\* sequence that differ in answer content alone therefore send the same
\* messages to every connection until the phase leaves ANSWERING.
C28_MessagesIgnoreContent ==
  phase = "ANSWERING" =>
    /\ \A p \in connections, q \in QuestionIds :
         /\ \A a \in AnswerIds :
              alike(onAnswer(Room, p, q, a), onAnswer(contentFree(Room), p, q, "a1"))
         /\ \A v \in SliderValues :
              alike(onSliderAnswer(Room, p, q, v),
                    onSliderAnswer(contentFree(Room), p, q, 5))
    /\ \A p \in connections : alike(leave(Room, p), leave(contentFree(Room), p))
    /\ \A id \in Pair \ connections :
         alike(onConnect(Room, id, "Swift Panda"),
               onConnect(contentFree(Room), id, "Swift Panda"))

\* u1 has answered the first question with a2 and the second with slider
\* value 100, neither the fixed content, before u2 has answered any; the
\* announcement of an answer has just gone to both.
C28_Witness ==
  /\ phase = "ANSWERING" /\ connections = Pair
  /\ Has(users["u1"].answers, "happiness")
  /\ users["u1"].answers["happiness"].value = [type |-> "choice", answerId |-> "a2"]
  /\ Has(users["u1"].answers, "focus_strengths_vs_weaknesses")
  /\ users["u1"].answers["focus_strengths_vs_weaknesses"].value
       = [type |-> "slider", value |-> 100]
  /\ users["u2"].answers = EmptyMap
  /\ Len(sent) = 1 /\ sent[1].msg.type = "PLAYER_ANSWERED"

\* ------------------------------------------------- answer ordinals
\* The participants whose record for question q is written by this step.
accepted(q) ==
  { p \in DOMAIN users' :
      /\ Has(users'[p].answers, q)
      /\ ~(Has(users, p) /\ Has(users[p].answers, q)) }

\* C29: for each question the ordinals of the stored records are pairwise
\* distinct, and the record a step writes for a question carries an ordinal
\* larger than that of every record of the question accepted before it and
\* still stored, whichever question is displayed and whoever answers.
C29_OrdinalsDistinctAndIncreasing ==
  /\ [](\A q \in QuestionIds :
          \A p1, p2 \in holders(users, q) :
             p1 # p2 => users[p1].answers[q].answerOrder
                          # users[p2].answers[q].answerOrder)
  /\ [][ \A q \in QuestionIds :
           \A p \in accepted(q), o \in holders(users, q) :
              users'[p].answers[q].answerOrder > users[o].answers[q].answerOrder
         ]_vars

\* ------------------------------------------------- the displayed question
\* The id of the question at currentQuestionIndex, if there is one.
displayedId ==
  IF currentQuestionIndex < Len(questions)
    THEN questions[currentQuestionIndex + 1].id
    ELSE NULL

\* C30: a record is written only for the question at currentQuestionIndex,
\* and an answer of either shape that names another id (a later question, an
\* earlier one, an id that is not in the question list) leaves the
\* participants' records as they are.
C30_OnlyDisplayedQuestionAnswered ==
  /\ [][ \A q \in QuestionIds : accepted(q) # {} => q = displayedId ]_vars
  /\ [](\A p \in connections, q \in QuestionIds \ {displayedId} :
          /\ \A a \in AnswerIds : onAnswer(Room, p, q, a).users = users
          /\ \A v \in SliderValues : onSliderAnswer(Room, p, q, v).users = users)

\* ------------------------------------------------- reaching the results
\* Every connected participant holds a record for every question of the set:
\* nobody has an answer left that the room would accept.
allSubmitted ==
  \A p \in connections : \A i \in 1..Len(questions) :
    Has(users, p) /\ Has(users[p].answers, questions[i].id)

\* C31: with at least 2 connected participants, the room is never left in
\* ANSWERING once every connected participant holds a record for every
\* question of the set: when the last of these records is accepted the room
\* has gone on to RESULTS.
C31_AnsweringEndsWhenAllSubmitted ==
  ~(phase = "ANSWERING" /\ Cardinality(connections) >= MIN_PLAYERS /\ allSubmitted)

\* ------------------------------------------------- the chat sessions
\* The messages of these types that this handler result sends.
sentOfType(r, types) ==
  { i \in 1..Len(r.out) : r.out[i].msg.type \in types }

\* C32: every chat session has two different participants, and a
\* reveal-request of a connection for itself opens no chat session and sends
\* no REVEAL_MUTUAL and no CHAT_STARTED message.
C32_NoChatWithOneself ==
  /\ \A c \in DOMAIN activeChats :
       activeChats[c].participants[1] # activeChats[c].participants[2]
  /\ \A p \in connections :
       LET r == onRevealRequest(Room, p, p) IN
         /\ r.activeChats = activeChats
         /\ sentOfType(r, {"REVEAL_MUTUAL", "CHAT_STARTED"}) = {}

\* ------------------------------------------------- the host
\* C33: in every LOBBY state with lobbyConfig non-null, hostId is the id of an
\* open connection, and whenever at least 2 participants are connected the
\* start-game command of one of them is accepted.
C33_HostStaysConnected ==
  (phase = "LOBBY" /\ lobbyConfig # NULL) =>
    /\ hostId \in connections
    /\ Cardinality(connections) >= MIN_PLAYERS =>
         \E p \in connections : onStartGame(Room, p).phase # "LOBBY"

\* ------------------------------------------------- late joiners
\* These messages hold a NARRATIVE message with this story addressed to this
\* connection alone.
narrativeSentTo(out, id, story) ==
  \E i \in 1..Len(out) :
    /\ out[i].to = {id}
    /\ out[i].msg = [type |-> "NARRATIVE", story |-> story]

RECURSIVE messagesTo(_, _)
messagesTo(out, id) ==
  IF out = << >> THEN << >>
  ELSE LET rest == messagesTo(Tail(out), id) IN
       IF id \in Head(out).to THEN << Head(out).msg >> \o rest ELSE rest

RECURSIVE handleMessage(_, _)
\* useGameState.handleMessage over these messages: the narrative and the
\* results the client holds at the end.  A sync clears both.
handleMessage(client, msgs) ==
  IF msgs = << >> THEN client
  ELSE LET msg == Head(msgs)
           next == IF msg.type = "sync"
                     THEN [narrativeStory |-> "", results |-> {}]
                   ELSE IF msg.type = "RESULTS"
                     THEN [client EXCEPT !.results = msg.matches]
                   ELSE IF msg.type = "NARRATIVE"
                     THEN [client EXCEPT !.narrativeStory = msg.story]
                   ELSE client
       IN handleMessage(next, Tail(msgs))

\* The state of useGameState before any message.
newClient == [narrativeStory |-> "", results |-> {}]

\* C35: the first message a connect sends to the new connection is the sync,
\* so that the joining client, which clears its narrative and results at the
\* sync, ends the connect holding every narrative and the results that the
\* connect sent it.
C35_SyncComesFirst ==
  \A id \in Pair \ connections :
    LET msgs == messagesTo(onConnect(Room, id, "Swift Panda").out, id)
        client == handleMessage(newClient, msgs)
    IN /\ msgs # << >> /\ msgs[1].type = "sync"
       /\ \A i \in 1..Len(msgs) :
            /\ msgs[i].type = "NARRATIVE" => client.narrativeStory = msgs[i].story
            /\ msgs[i].type = "RESULTS" => client.results = msgs[i].matches

\* ------------------------------------------------- sessions and edges
\* C36: for every chat session, both of its participants are connected and
\* each has a reveal request for the other in the reveal-request graph; and
\* a step that opens a session ends with both of these requests in the graph.
C36_SessionHasBothEdges ==
  /\ [](\A c \in DOMAIN activeChats :
          LET A == activeChats[c].participants[1]
              B == activeChats[c].participants[2]
          IN /\ isMutualReveal(Room, A, B)
             /\ A \in connections /\ B \in connections)
  /\ [][ \A c \in (DOMAIN activeChats') \ (DOMAIN activeChats) :
           /\ Has(revealRequests', activeChats'[c].participants[1])
           /\ activeChats'[c].participants[2]
                \in revealRequests'[activeChats'[c].participants[1]]
           /\ Has(revealRequests', activeChats'[c].participants[2])
           /\ activeChats'[c].participants[1]
                \in revealRequests'[activeChats'[c].participants[2]] ]_vars

\* The chat of u1 and u2 is open for the second time: it was closed with the
\* requests of both still in the graph, and a further request opened it again.
C36_Witness ==
  /\ Has(activeChats, "u1-u2")
  /\ sessionsStarted(GetOr(chatLog, << "u1-u2", "u1" >>, << >>)) = 2
  /\ chatStartedTo(sent, "u1-u2", "u1") = 1

\* ------------------------------------------------- unknown decks
\* C37: a configure-lobby event that names a deck the provider does not know
\* leaves lobbyConfig, questions and hostId as they were, and hostId is
\* non-null only while lobbyConfig is non-null.
C37_UnknownDeckChangesNothing ==
  /\ \A p \in connections, deck \in { d \in DeckNames : ~hasDeck(d) } :
       LET r == onConfigureLobby(Room, p, deck) IN
         /\ r.lobbyConfig = lobbyConfig
         /\ r.questions = questions
         /\ r.hostId = hostId
  /\ hostId # NULL => lobbyConfig # NULL

\* ------------------------------------------------- the first start time
\* The room in which this intro-ready makes the transition to ANSWERING: the
\* sender is in the ready set and the status has been broadcast.
beforeTransition(p) ==
  broadcast([Room EXCEPT !.introReadyPlayers = @ \cup {p}],
            [type |-> "INTRO_READY_STATUS",
             readyCount |-> Cardinality(introReadyPlayers \cup {p}),
             totalPlayers |-> Cardinality(DOMAIN users),
             readyUserIds |-> introReadyPlayers \cup {p}], {})

C40_IndexWithinBounds ==
  Len(questions) > 0 =>
    /\ currentQuestionIndex \in 0..Len(questions)
    /\ phase = "ANSWERING" => currentQuestionIndex < Len(questions)
    /\ currentQuestionIndex = Len(questions) => phase \in {"RESULTS", "REVEAL"}

\* The last question has been answered by all: the index has reached the
\* length of the list and the results are out.
C40_Witness ==
  /\ Len(questions) > 0
  /\ currentQuestionIndex = Len(questions)
  /\ phase = "RESULTS"
  /\ \E i \in 1..Len(sent) :
       sent[i].msg = [type |-> "PHASE_CHANGE", phase |-> "RESULTS"]

\* ------------------------------------------------- the score in IEEE doubles
\* A JavaScript number is an IEEE-754 double: 53 significant bits, every
\* operation rounded to the nearest double, ties to even.  The values of the
\* score computation are not negative, stay below 2^LimbBits and are never
\* subnormal, so a value is written in fixed point as a sequence of Limbs
\* limbs of LimbBits bits, the most significant first: the first limb is the
\* integer part and the others are the fraction.
SignificandBits == 53
LimbBits == 16
Limbs == 5

\* The integer n, 0 <= n < 2^LimbBits.
fromInt(n) == [j \in 1..Limbs |-> IF j = 1 THEN n ELSE 0]

\* Bit i of x, bit 1 the most significant.
bit(x, i) ==
  (x[(i - 1) \div LimbBits + 1] \div 2^(LimbBits - 1 - ((i - 1) % LimbBits))) % 2

RECURSIVE addUpTo(_, _, _, _)
\* The limbs 1..j of x + y, given the carry into limb j.
addUpTo(x, y, j, carry) ==
  IF j = 0 THEN << >>
  ELSE Append(addUpTo(x, y, j - 1, (x[j] + y[j] + carry) \div 2^LimbBits),
              (x[j] + y[j] + carry) % 2^LimbBits)

RECURSIVE subUpTo(_, _, _, _)
\* The limbs 1..j of x - y (x >= y), given the borrow out of limb j + 1.
subUpTo(x, y, j, borrow) ==
  IF j = 0 THEN << >>
  ELSE Append(subUpTo(x, y, j - 1, IF x[j] - y[j] - borrow < 0 THEN 1 ELSE 0),
              (x[j] - y[j] - borrow + 2^LimbBits) % 2^LimbBits)

\* | x - y |, exact: x < y is decided limb by limb from the most significant.
exactDistance(x, y) ==
  IF \E j \in 1..Limbs : x[j] < y[j] /\ \A k \in 1..(j - 1) : x[k] = y[k]
    THEN subUpTo(y, x, Limbs, 0)
    ELSE subUpTo(x, y, Limbs, 0)

\* One step of long division by n < 2^LimbBits: the next limb of the
\* quotient and the remainder after it.
divStep(p, limb, n) ==
  [q |-> Append(p.q, (2^LimbBits * p.rem + limb) \div n),
   rem |-> (2^LimbBits * p.rem + limb) % n]

RECURSIVE divUpTo(_, _, _)
\* The limbs 1..j of x / n by long division, with the remainder so far.
divUpTo(x, n, j) ==
  IF j = 0 THEN [q |-> << >>, rem |-> 0]
  ELSE divStep(divUpTo(x, n, j - 1), x[j], n)

\* The position of the first bit of x that is set, one past the last bit if
\* none is.
leading(x) ==
  IF \E i \in 1..(Limbs * LimbBits) : bit(x, i) = 1
    THEN CHOOSE i \in 1..(Limbs * LimbBits) :
           bit(x, i) = 1 /\ \A k \in 1..(i - 1) : bit(x, k) = 0
    ELSE (Limbs * LimbBits) + 1

\* x up to bit last, with the bits after it cleared.
truncated(x, last) ==
  [j \in 1..Limbs |->
     IF j * LimbBits <= last THEN x[j]
     ELSE IF (j - 1) * LimbBits >= last THEN 0
     ELSE x[j] - (x[j] % 2^(j * LimbBits - last))]

\* One unit in the place of bit last.
unitAt(last) ==
  [j \in 1..Limbs |->
     IF (j - 1) * LimbBits < last /\ last <= j * LimbBits
       THEN 2^(j * LimbBits - last) ELSE 0]

\* The double nearest to the exact value x (sticky: the exact value has more
\* behind its last bit), ties to even: the bits from the first set bit to the
\* SignificandBits-th are kept and the rest decides the rounding.
roundAt(x, sticky, last) ==
  IF last >= (Limbs * LimbBits) THEN x
  ELSE IF /\ bit(x, last + 1) = 1
          /\ \/ sticky
             \/ bit(x, last) = 1
             \/ \E i \in (last + 2)..(Limbs * LimbBits) : bit(x, i) = 1
         THEN addUpTo(truncated(x, last), unitAt(last), Limbs, 0)
         ELSE truncated(x, last)

roundToDouble(x, sticky) == roundAt(x, sticky, leading(x) + SignificandBits - 1)

\* a + b, | a - b | and a / n as JavaScript computes them.
doubleSum(a, b) == roundToDouble(addUpTo(a, b, Limbs, 0), FALSE)
doubleDistance(a, b) == roundToDouble(exactDistance(a, b), FALSE)
doubleQuotient(a, n) ==
  roundToDouble(divUpTo(a, n, Limbs).q, divUpTo(a, n, Limbs).rem # 0)

\* The whole deck, card by card.
fullDeck ==
  << [card_name |-> "happiness", type |-> "buttons", answers |-> 4],
     [card_name |-> "focus_strengths_vs_weaknesses", type |-> "slider", answers |-> 2],
     [card_name |-> "inspiration", type |-> "buttons", answers |-> 4],
     [card_name |-> "past_vs_future", type |-> "slider", answers |-> 2],
     [card_name |-> "fear", type |-> "buttons", answers |-> 4] >>

\* An answers Map as the sequence of its entries in insertion order, which is
\* the order its iteration follows.  Map.has and Map.get:
holds(entries, qId) == \E i \in 1..Len(entries) : entries[i].id = qId
entryOf(entries, qId) ==
  entries[CHOOSE i \in 1..Len(entries) : entries[i].id = qId]

\* What one jointly answered question adds to totalScore; 1 - diff is the
\* distance of diff from 1, diff being at most 1 for slider values within the
\* positions.
contributionOf(qs, qId, answerA, answerB) ==
  IF answerA.type = "choice" /\ answerB.type = "choice"
    THEN (IF answerA.answerId = answerB.answerId THEN fromInt(1) ELSE fromInt(0))
  ELSE IF answerA.type = "slider" /\ answerB.type = "slider"
    THEN IF findQuestion([questions |-> qs], qId).type = "SLIDER"
           THEN IF findQuestion([questions |-> qs], qId).positions - 1 > 0
                  THEN doubleDistance(fromInt(1), doubleDistance(
                         doubleQuotient(fromInt(answerA.value),
                                        findQuestion([questions |-> qs], qId).positions - 1),
                         doubleQuotient(fromInt(answerB.value),
                                        findQuestion([questions |-> qs], qId).positions - 1)))
                  ELSE (IF answerA.value = answerB.value THEN fromInt(1) ELSE fromInt(0))
           ELSE doubleDistance(fromInt(1),
                  doubleQuotient(fromInt(Abs(answerA.value - answerB.value)), 100))
  ELSE fromInt(0)

\* One turn of the loop over userA.answers.
scoreStep(qs, acc, entry, answersB) ==
  IF ~holds(answersB, entry.id) THEN acc
  ELSE [totalScore |-> doubleSum(acc.totalScore,
                         contributionOf(qs, entry.id, entry.value,
                                        entryOf(answersB, entry.id).value)),
        questionCount |-> acc.questionCount + 1]

RECURSIVE scoreUpTo(_, _, _, _)
\* totalScore and questionCount after the first i entries of userA.answers.
scoreUpTo(qs, answersA, answersB, i) ==
  IF i = 0 THEN [totalScore |-> fromInt(0), questionCount |-> 0]
  ELSE scoreStep(qs, scoreUpTo(qs, answersA, answersB, i - 1), answersA[i], answersB)

averageOf(acc) ==
  IF acc.questionCount > 0 THEN doubleQuotient(acc.totalScore, acc.questionCount)
                           ELSE fromInt(0)

\* calculateCompatibility on doubles, the answers in insertion order.
calculateCompatibilityDouble(qs, answersA, answersB) ==
  IF Len(answersA) = 0 THEN fromInt(0)
  ELSE averageOf(scoreUpTo(qs, answersA, answersB, Len(answersA)))

\* ----------------------------------------------------- comparing two scores
choice(a) == [type |-> "choice", answerId |-> a]
slider(v) == [type |-> "slider", value |-> v]
unanswered == [type |-> "none"]

\* What the first participant may hold for card i: every card answered in its
\* own shape, the third one possibly with a slider value, the last one
\* possibly not at all.
optionsA(i) ==
  IF fullDeck[i].type = "slider" THEN {slider(0), slider(3)}
  ELSE IF i = 3 THEN {choice("a1"), slider(2)}
  ELSE IF i = 5 THEN {choice("a1"), unanswered}
  ELSE {choice("a1")}

\* What the second participant may hold for card i: either choice, a choice
\* for a slider card, a slider value for the third card, the first card
\* possibly not at all.
optionsB(i) ==
  IF fullDeck[i].type = "slider" THEN {slider(1), slider(2), slider(5), choice("a1")}
  ELSE IF i = 3 THEN {choice("a1"), choice("a2"), slider(4)}
  ELSE IF i = 1 THEN {choice("a1"), choice("a2"), unanswered}
  ELSE {choice("a1"), choice("a2")}

\* The orders in which the second participant's answers may have arrived: the
\* deck's, its reverse, and the sliders first.  The first participant's came
\* in the order of the deck.
probeOrders == { << 1, 2, 3, 4, 5 >>, << 5, 4, 3, 2, 1 >>, << 2, 4, 1, 3, 5 >> }

isAnswer(entry) == entry.value.type # "none"

\* The answers Map after the cards were answered in this order.
answersIn(order, sheet) ==
  SelectSeq([k \in 1..Len(order) |->
               [id |-> fullDeck[order[k]].card_name, value |-> sheet[order[k]]]],
            isAnswer)

sheetsA == { f \in [1..Len(fullDeck) -> UNION { optionsA(i) : i \in 1..Len(fullDeck) }] :
               \A i \in 1..Len(fullDeck) : f[i] \in optionsA(i) }
sheetsB == { f \in [1..Len(fullDeck) -> UNION { optionsB(i) : i \in 1..Len(fullDeck) }] :
               \A i \in 1..Len(fullDeck) : f[i] \in optionsB(i) }

\* Two participants whose scores are about to be computed.
InitSymmetry ==
  /\ InitRoom
  /\ compared \in
       { [a |-> answersIn(<< 1, 2, 3, 4, 5 >>, fa), b |-> answersIn(order, fb),
          done |-> FALSE, ab |-> fromInt(0), ba |-> fromInt(0)]
         : fa \in sheetsA, fb \in sheetsB, order \in probeOrders }

\* sendResultsToAll: each of the two gets its score against the other.
Compare ==
  /\ ~compared.done
  /\ compared' =
       [compared EXCEPT
          !.done = TRUE,
          !.ab = calculateCompatibilityDouble(deckToQuestions(fullDeck), compared.a, compared.b),
          !.ba = calculateCompatibilityDouble(deckToQuestions(fullDeck), compared.b, compared.a)]
  /\ UNCHANGED << fields, connections, narrativeTask, narrativeWaiters,
                  insightsTask, now, sent, chatLog, nudgeLog >>

SpecSymmetry == InitSymmetry /\ [][Compare]_vars

\* The questions both hold, in the order of each one's Map.
jointOrder(entries, others) ==
  SelectSeq([k \in 1..Len(entries) |-> entries[k].id],
            LAMBDA q : holds(others, q))

\* Computed one after the other in the same order, the two scores are equal.
symmetricInSameOrder ==
  (compared.done /\ jointOrder(compared.a, compared.b) = jointOrder(compared.b, compared.a))
    => compared.ab = compared.ba

\* C38: the score of A against B equals the score of B against A, whatever
\* the two hold: answer sets of different sizes and answers of mismatched
\* shape included.
C38_ScoreIsSymmetric == compared.done => compared.ab = compared.ba

==============================================================================
